---- MODULE Spec2Model ----
(***************************************************************************)
(* SnapVault secure file access: the signed-URL token codec, the access   *)
(* decision, the rate limiter and the retrieval / issuance endpoints.     *)
(*                                                                         *)
(* Time is the value of Date.now() in milliseconds; the token clock is    *)
(* Math.floor(Date.now() / 1000).  A JS value that may be undefined is a   *)
(* sequence of length 0 (undefined) or 1 (the value); strings that the     *)
(* code only tests for truthiness use "" for both undefined and empty.     *)
(***************************************************************************)
EXTENDS Integers, Sequences, FiniteSets, TLC

VARIABLES now, nticks, nreq, tok, files, sessions, accessAttempts,
          accessLogs, logStoreOk, callers, last

vars == <<now, nticks, nreq, tok, files, sessions, accessAttempts,
          accessLogs, logStoreOk, callers, last>>

\* ------------------------------------------------------------------ bounds
\* how many times the clock is advanced in one behaviour
MaxTicks == 2
\* how many requests the endpoints handle in one behaviour
MaxRequests == 2
\* how many requests are in flight at the rate limiter in one behaviour
MaxCallers == 4

\* --------------------------------------------------------------- constants
DEFAULT_URL_EXPIRY == 900
MAX_URL_EXPIRY == 86400
SIGNED_URL_SECRET == "snapvault-signed-url-secret"
ForeignSecret == "secret-of-another-party"

Undefined == <<>>
Some(v) == <<v>>
\* F(v) with v evaluated once, like a const binding
Bind(v, F(_)) == CHOOSE y \in {F(x) : x \in {v}} : TRUE
Min(a, b) == IF a < b THEN a ELSE b
Max(a, b) == IF a > b THEN a ELSE b

Users == {"u1", "u2"}
FileIds == {"f1", "f2", "f3"}
UrlActions == {"download", "view", "info"}
IPs == {"ip1", "ip2"}
UserAgents == {"ua1", "ua2"}

\* Math.floor(Date.now() / 1000)
nowSeconds(t) == t \div 1000

\* ------------------------------------------------------------ token codec
\* crypto.createHash('sha256').update(x).digest('hex'): one-way, no collisions
sha256(x) == <<"sha256", x>>

\* the HS256 signature of jsonwebtoken: a keyed function of the whole payload
HS256(payload, secret) == <<secret, payload>>

jwtSign(payload, secret) == [payload |-> payload, sig |-> HS256(payload, secret)]

\* jwt.verify: the signature first, then the exp claim against the token clock
jwtVerifyNoSignatureCheck(token, secret, t) ==
    IF nowSeconds(t) >= token.payload.exp
    THEN [ok |-> FALSE, name |-> "TokenExpiredError", decoded |-> Undefined]
    ELSE [ok |-> TRUE, name |-> "", decoded |-> Some(token.payload)]
jwtVerifyNoExpiryCheck(token, secret, t) ==
    IF token.sig # HS256(token.payload, secret)
    THEN [ok |-> FALSE, name |-> "JsonWebTokenError", decoded |-> Undefined]
    ELSE [ok |-> TRUE, name |-> "", decoded |-> Some(token.payload)]
jwtVerify(token, secret, t) ==
    IF token.sig # HS256(token.payload, secret)
    THEN [ok |-> FALSE, name |-> "JsonWebTokenError", decoded |-> Undefined]
    ELSE IF nowSeconds(t) >= token.payload.exp
    THEN [ok |-> FALSE, name |-> "TokenExpiredError", decoded |-> Undefined]
    ELSE [ok |-> TRUE, name |-> "", decoded |-> Some(token.payload)]

\* generateSignedUrl: options = [fileId, userId, expiresIn, action, ipAddress,
\* userAgent]; t1 is Date.now() where exp is computed, t2 where iat is computed
signedUrlPayload(options, t1, t2) ==
    LET expiresIn == IF options.expiresIn = Undefined
                     THEN DEFAULT_URL_EXPIRY ELSE options.expiresIn[1]
        action == IF options.action = Undefined THEN "download" ELSE options.action[1]
        actualExpiry == Min(expiresIn, MAX_URL_EXPIRY)
        expiresAt == nowSeconds(t1) + actualExpiry
    IN  [fileId |-> options.fileId,
         userId |-> options.userId,
         action |-> action,
         exp |-> expiresAt,
         iat |-> nowSeconds(t2),
         ip |-> IF options.ipAddress # "" THEN sha256(options.ipAddress) ELSE Undefined,
         ua |-> IF options.userAgent # "" THEN sha256(options.userAgent) ELSE Undefined]

generateSignedUrlOtherSecret(options, t1, t2) ==
    LET payload == signedUrlPayload(options, t1, t2)
    IN  [fileId |-> options.fileId,
         token |-> jwtSign(payload, ForeignSecret),
         action |-> payload.action]
generateSignedUrl(options, t1, t2) ==
    LET payload == signedUrlPayload(options, t1, t2)
    IN  [fileId |-> options.fileId,
         token |-> jwtSign(payload, SIGNED_URL_SECRET),
         action |-> payload.action]

verifyResult(valid, payload, error) ==
    [valid |-> valid, payload |-> payload, error |-> error]

\* verifySignedUrl at Date.now() = t
verifySignedUrlNoFileIdCheck(fileId, token, action, ipAddress, userAgent, t) ==
    LET v == jwtVerify(token, SIGNED_URL_SECRET, t)
        decoded == v.decoded[1]
    IN  IF ~v.ok
        THEN IF v.name = "TokenExpiredError"
             THEN verifyResult(FALSE, Undefined, "Signed URL has expired")
             ELSE verifyResult(FALSE, Undefined, "Invalid signed URL")
        ELSE IF decoded.action # action
        THEN verifyResult(FALSE, Undefined, "Action mismatch")
        ELSE IF decoded.ip # Undefined /\ ipAddress # ""
                /\ decoded.ip # sha256(ipAddress)
        THEN verifyResult(FALSE, Undefined, "IP address mismatch")
        ELSE IF decoded.ua # Undefined /\ userAgent # ""
                /\ decoded.ua # sha256(userAgent)
        THEN verifyResult(FALSE, Undefined, "User agent mismatch")
        ELSE verifyResult(TRUE, Some(decoded), "")
verifySignedUrlBindingAlways(fileId, token, action, ipAddress, userAgent, t) ==
    LET v == jwtVerify(token, SIGNED_URL_SECRET, t)
        decoded == v.decoded[1]
    IN  IF ~v.ok
        THEN IF v.name = "TokenExpiredError"
             THEN verifyResult(FALSE, Undefined, "Signed URL has expired")
             ELSE verifyResult(FALSE, Undefined, "Invalid signed URL")
        ELSE IF decoded.fileId # fileId
        THEN verifyResult(FALSE, Undefined, "File ID mismatch")
        ELSE IF decoded.action # action
        THEN verifyResult(FALSE, Undefined, "Action mismatch")
        ELSE IF ipAddress # "" /\ decoded.ip # sha256(ipAddress)
        THEN verifyResult(FALSE, Undefined, "IP address mismatch")
        ELSE IF userAgent # "" /\ decoded.ua # sha256(userAgent)
        THEN verifyResult(FALSE, Undefined, "User agent mismatch")
        ELSE verifyResult(TRUE, Some(decoded), "")
verifySignedUrlActionFirst(fileId, token, action, ipAddress, userAgent, t) ==
    LET v == jwtVerify(token, SIGNED_URL_SECRET, t)
        decoded == v.decoded[1]
    IN  IF ~v.ok
        THEN IF v.name = "TokenExpiredError"
             THEN verifyResult(FALSE, Undefined, "Signed URL has expired")
             ELSE verifyResult(FALSE, Undefined, "Invalid signed URL")
        ELSE IF decoded.action # action
        THEN verifyResult(FALSE, Undefined, "Action mismatch")
        ELSE IF decoded.fileId # fileId
        THEN verifyResult(FALSE, Undefined, "File ID mismatch")
        ELSE IF decoded.ip # Undefined /\ ipAddress # ""
                /\ decoded.ip # sha256(ipAddress)
        THEN verifyResult(FALSE, Undefined, "IP address mismatch")
        ELSE IF decoded.ua # Undefined /\ userAgent # ""
                /\ decoded.ua # sha256(userAgent)
        THEN verifyResult(FALSE, Undefined, "User agent mismatch")
        ELSE verifyResult(TRUE, Some(decoded), "")
verifySignedUrl(fileId, token, action, ipAddress, userAgent, t) ==
    LET v == jwtVerify(token, SIGNED_URL_SECRET, t)
        decoded == v.decoded[1]
    IN  IF ~v.ok
        THEN IF v.name = "TokenExpiredError"
             THEN verifyResult(FALSE, Undefined, "Signed URL has expired")
             ELSE IF v.name = "JsonWebTokenError"
             THEN verifyResult(FALSE, Undefined, "Invalid signed URL")
             ELSE verifyResult(FALSE, Undefined, "URL verification failed")
        ELSE IF decoded.fileId # fileId
        THEN verifyResult(FALSE, Undefined, "File ID mismatch")
        ELSE IF decoded.action # action
        THEN verifyResult(FALSE, Undefined, "Action mismatch")
        ELSE IF decoded.ip # Undefined /\ ipAddress # ""
                /\ decoded.ip # sha256(ipAddress)
        THEN verifyResult(FALSE, Undefined, "IP address mismatch")
        ELSE IF decoded.ua # Undefined /\ userAgent # ""
                /\ decoded.ua # sha256(userAgent)
        THEN verifyResult(FALSE, Undefined, "User agent mismatch")
        ELSE verifyResult(TRUE, Some(decoded), "")

\* ------------------------------------------------------------- the store
\* database.getFileById: the record (length-1 sequence) or null
getFileById(fs, id) == IF id \in DOMAIN fs THEN fs[id] ELSE Undefined

\* database.getFileByAccessToken: SELECT * FROM files WHERE access_token = ?
getFileByAccessToken(fs, token) ==
    LET hits == {f \in DOMAIN fs : fs[f] # Undefined /\ fs[f][1].access_token = token}
    IN  IF hits = {} THEN Undefined
        ELSE LET f == CHOOSE f \in hits : TRUE
             IN  Some([id |-> f, rec |-> fs[f][1]])

\* file-utils getFileInfo(accessToken)
getFileInfo(fs, accessToken) == getFileByAccessToken(fs, accessToken)

\* expires_at is set and new Date(expires_at) < new Date()
fileExpired(rec, t) == rec.expires_at # Undefined /\ rec.expires_at[1] < t

\* file-utils deleteFile followed by database.deleteFile: the record is gone
deleteFile(fs, id) == [fs EXCEPT ![id] = Undefined]

\* database.incrementDownloadCount: one UPDATE statement, which changes
\* nothing when no row has the id
incrementDownloadCountFromStaleRead(fs, id) ==
    IF fs[id] = Undefined THEN fs
    ELSE [fs EXCEPT ![id] = Some([@[1] EXCEPT !.download_count = 1])]
incrementDownloadCount(fs, id) ==
    IF fs[id] = Undefined THEN fs
    ELSE [fs EXCEPT ![id] = Some([@[1] EXCEPT !.download_count = @ + 1])]

\* file-utils downloadFile(accessToken) at Date.now() = t: the content served
\* (the id of the file read, or null) and the files afterwards
downloadFile(fs, accessToken, t) ==
    LET hit == getFileByAccessToken(fs, accessToken)
    IN  IF hit = Undefined
        THEN [data |-> Undefined, files |-> fs]
        ELSE IF fileExpired(hit[1].rec, t)
        THEN [data |-> Undefined, files |-> deleteFile(fs, hit[1].id)]
        ELSE IF ~hit[1].rec.on_disk
        THEN [data |-> Undefined, files |-> fs]
        ELSE [data |-> Some(hit[1].id),
              files |-> incrementDownloadCount(fs, hit[1].id)]

\* auth verifySession(token): the user of a live session, or null
verifySession(ss, token) ==
    IF token # "" /\ token \in DOMAIN ss THEN Some([id |-> ss[token]]) ELSE Undefined

\* ---------------------------------------------------------- rate limiter
\* checkRateLimit(identifier, maxAttempts, windowMinutes) at Date.now() = t:
\* the result and the map afterwards
checkRateLimitOffByOne(map, identifier, maxAttempts, windowMinutes, t) ==
    LET windowMs == windowMinutes * 60 * 1000
        fresh == identifier \notin DOMAIN map
    IN  IF fresh \/ t > map[identifier].resetTime
        THEN [allowed |-> TRUE, remaining |-> maxAttempts - 1,
              resetTime |-> t + windowMs,
              map |-> [id \in DOMAIN map \cup {identifier} |->
                          IF id = identifier
                          THEN [count |-> 1, resetTime |-> t + windowMs]
                          ELSE map[id]]]
        ELSE IF map[identifier].count > maxAttempts
        THEN [allowed |-> FALSE, remaining |-> 0,
              resetTime |-> map[identifier].resetTime, map |-> map]
        ELSE [allowed |-> TRUE,
              remaining |-> maxAttempts - (map[identifier].count + 1),
              resetTime |-> map[identifier].resetTime,
              map |-> [map EXCEPT ![identifier].count = @ + 1]]
checkRateLimitNoReset(map, identifier, maxAttempts, windowMinutes, t) ==
    LET windowMs == windowMinutes * 60 * 1000
        fresh == identifier \notin DOMAIN map
    IN  IF fresh
        THEN [allowed |-> TRUE, remaining |-> maxAttempts - 1,
              resetTime |-> t + windowMs,
              map |-> [id \in DOMAIN map \cup {identifier} |->
                          IF id = identifier
                          THEN [count |-> 1, resetTime |-> t + windowMs]
                          ELSE map[id]]]
        ELSE IF map[identifier].count >= maxAttempts
        THEN [allowed |-> FALSE, remaining |-> 0,
              resetTime |-> map[identifier].resetTime, map |-> map]
        ELSE [allowed |-> TRUE,
              remaining |-> maxAttempts - (map[identifier].count + 1),
              resetTime |-> map[identifier].resetTime,
              map |-> [map EXCEPT ![identifier].count = @ + 1]]
checkRateLimitLostIncrement(map, identifier, maxAttempts, windowMinutes, t) ==
    LET windowMs == windowMinutes * 60 * 1000
        fresh == identifier \notin DOMAIN map
    IN  IF fresh \/ t > map[identifier].resetTime
        THEN [allowed |-> TRUE, remaining |-> maxAttempts - 1,
              resetTime |-> t + windowMs,
              map |-> [id \in DOMAIN map \cup {identifier} |->
                          IF id = identifier
                          THEN [count |-> 1, resetTime |-> t + windowMs]
                          ELSE map[id]]]
        ELSE IF map[identifier].count >= maxAttempts
        THEN [allowed |-> FALSE, remaining |-> 0,
              resetTime |-> map[identifier].resetTime, map |-> map]
        ELSE [allowed |-> TRUE,
              remaining |-> maxAttempts - (map[identifier].count + 1),
              resetTime |-> map[identifier].resetTime,
              map |-> map]
checkRateLimitDeniedCounts(map, identifier, maxAttempts, windowMinutes, t) ==
    LET windowMs == windowMinutes * 60 * 1000
        fresh == identifier \notin DOMAIN map
    IN  IF fresh \/ t > map[identifier].resetTime
        THEN [allowed |-> TRUE, remaining |-> maxAttempts - 1,
              resetTime |-> t + windowMs,
              map |-> [id \in DOMAIN map \cup {identifier} |->
                          IF id = identifier
                          THEN [count |-> 1, resetTime |-> t + windowMs]
                          ELSE map[id]]]
        ELSE IF map[identifier].count >= maxAttempts
        THEN [allowed |-> FALSE, remaining |-> 0,
              resetTime |-> map[identifier].resetTime,
              map |-> [map EXCEPT ![identifier].count = @ + 1]]
        ELSE [allowed |-> TRUE,
              remaining |-> maxAttempts - (map[identifier].count + 1),
              resetTime |-> map[identifier].resetTime,
              map |-> [map EXCEPT ![identifier].count = @ + 1]]
checkRateLimitOneBudget(map, identifier, maxAttempts, windowMinutes, t) ==
    LET windowMs == windowMinutes * 60 * 1000
        key == <<"file_access", "ip1">>
        fresh == key \notin DOMAIN map
    IN  IF fresh \/ t > map[key].resetTime
        THEN [allowed |-> TRUE, remaining |-> maxAttempts - 1,
              resetTime |-> t + windowMs,
              map |-> [id \in DOMAIN map \cup {key} |->
                          IF id = key
                          THEN [count |-> 1, resetTime |-> t + windowMs]
                          ELSE map[id]]]
        ELSE IF map[key].count >= maxAttempts
        THEN [allowed |-> FALSE, remaining |-> 0,
              resetTime |-> map[key].resetTime, map |-> map]
        ELSE [allowed |-> TRUE,
              remaining |-> maxAttempts - (map[key].count + 1),
              resetTime |-> map[key].resetTime,
              map |-> [map EXCEPT ![key].count = @ + 1]]
checkRateLimit(map, identifier, maxAttempts, windowMinutes, t) ==
    LET windowMs == windowMinutes * 60 * 1000
        fresh == identifier \notin DOMAIN map
    IN  IF fresh \/ t > map[identifier].resetTime
        THEN [allowed |-> TRUE, remaining |-> maxAttempts - 1,
              resetTime |-> t + windowMs,
              map |-> [id \in DOMAIN map \cup {identifier} |->
                          IF id = identifier
                          THEN [count |-> 1, resetTime |-> t + windowMs]
                          ELSE map[id]]]
        ELSE IF map[identifier].count >= maxAttempts
        THEN [allowed |-> FALSE, remaining |-> 0,
              resetTime |-> map[identifier].resetTime, map |-> map]
        ELSE [allowed |-> TRUE,
              remaining |-> maxAttempts - (map[identifier].count + 1),
              resetTime |-> map[identifier].resetTime,
              map |-> [map EXCEPT ![identifier].count = @ + 1]]

\* cleanupRateLimitData() at Date.now() = t: the map afterwards
cleanupRateLimitDataAll(map, t) ==
    [id \in {} |-> map[id]]
cleanupRateLimitData(map, t) ==
    [id \in {i \in DOMAIN map : ~(t > map[i].resetTime)} |-> map[id]]

\* --------------------------------------------------------- the audit log
\* a FileAccessLog row; id is a random UUID that nothing reads
logEntry(file_id, user_id, ip_address, user_agent, action, success, error_message, t) ==
    [file_id |-> file_id, user_id |-> user_id, ip_address |-> ip_address,
     user_agent |-> user_agent, action |-> action, success |-> success,
     error_message |-> error_message, created_at |-> t]

\* database.createFileAccessLog(logEntry).  class Database defines no such
\* method, so the call throws a TypeError (storeOk = FALSE); storeOk = TRUE
\* is the log store the specification describes, which appends the row
createFileAccessLog(logs, storeOk, entry) ==
    [logs |-> IF storeOk THEN Append(logs, entry) ELSE logs, threw |-> ~storeOk]

\* logFileAccess(logData): the rows afterwards and whether the call threw
logFileAccessRethrows(logs, storeOk, entry) ==
    createFileAccessLog(logs, storeOk, entry)
logFileAccess(logs, storeOk, entry) ==
    LET stored == createFileAccessLog(logs, storeOk, entry)
    IN  [logs |-> stored.logs, threw |-> FALSE]

\* database.getFileAccessLogsSince(fileId, since).  class Database defines no
\* such method, so the call throws a TypeError (storeOk = FALSE); storeOk = TRUE
\* is the log store the specification describes, which answers the rows of the
\* file created at or after since
getFileAccessLogsSince(logs, storeOk, fileId, since) ==
    [rows |-> IF storeOk
              THEN SelectSeq(logs, LAMBDA e : e.file_id = fileId /\ e.created_at >= since)
              ELSE <<>>,
     threw |-> ~storeOk]

\* Math.round(failedAttempts / count * 100)
failurePercent(failedAttempts, count) ==
    (200 * failedAttempts + count) \div (2 * count)

\* the reasons pushed for count rows of which failedAttempts failed and
\* which carry uniqueIPs addresses
suspiciousReasonsNoSampleGuard(count, uniqueIPs, failedAttempts, timeWindowHours) ==
    (IF count > 100 THEN << <<"High access volume", count, timeWindowHours>> >> ELSE <<>>)
    \o (IF uniqueIPs > 20 THEN << <<"Many unique IPs", uniqueIPs>> >> ELSE <<>>)
    \o (IF failedAttempts > 20 THEN << <<"Many failed attempts", failedAttempts>> >> ELSE <<>>)
    \o (IF count > 0 /\ 2 * failedAttempts > count
        THEN << <<"High failure rate", failurePercent(failedAttempts, count)>> >>
        ELSE <<>>)
suspiciousReasons(count, uniqueIPs, failedAttempts, timeWindowHours) ==
    (IF count > 100 THEN << <<"High access volume", count, timeWindowHours>> >> ELSE <<>>)
    \o (IF uniqueIPs > 20 THEN << <<"Many unique IPs", uniqueIPs>> >> ELSE <<>>)
    \o (IF failedAttempts > 20 THEN << <<"Many failed attempts", failedAttempts>> >> ELSE <<>>)
    \o (IF count > 0 /\ 2 * failedAttempts > count /\ count > 10
        THEN << <<"High failure rate", failurePercent(failedAttempts, count)>> >>
        ELSE <<>>)

\* detectSuspiciousActivity(fileId, timeWindowHours) at Date.now() = t
detectSuspiciousActivity(logs, storeOk, fileId, timeWindowHours, t) ==
    LET since == t - timeWindowHours * 60 * 60 * 1000
        found == getFileAccessLogsSince(logs, storeOk, fileId, since)
    IN  IF found.threw
        THEN [isSuspicious |-> FALSE, reasons |-> <<>>, accessCount |-> 0,
              uniqueIPs |-> 0]
        ELSE Bind(found.rows,
                  LAMBDA rows :
                      LET ipAddresses ==
                              {rows[i].ip_address :
                                  i \in {j \in DOMAIN rows : rows[j].ip_address # ""}}
                          failedAttempts ==
                              Cardinality({i \in DOMAIN rows : ~rows[i].success})
                      IN  Bind(suspiciousReasons(Len(rows), Cardinality(ipAddresses),
                                                 failedAttempts, timeWindowHours),
                               LAMBDA reasons :
                                   [isSuspicious |-> Len(reasons) > 0,
                                    reasons |-> reasons,
                                    accessCount |-> Len(rows),
                                    uniqueIPs |-> Cardinality(ipAddresses)]))

\* ------------------------------------------------------- access decision
accessDecision(canAccess, reason, requiresAuth, isOwner) ==
    [canAccess |-> canAccess, reason |-> reason,
     requiresAuth |-> requiresAuth, isOwner |-> isOwner]

\* what checkFileAccess leaves behind: its decision, the rows of the log,
\* the files, and whether it threw instead of returning
accessOutcome(decision, logs, fs, threw) ==
    [canAccess |-> decision.canAccess, reason |-> decision.reason,
     requiresAuth |-> decision.requiresAuth, isOwner |-> decision.isOwner,
     logs |-> logs, files |-> fs, threw |-> threw]

\* the catch block of checkFileAccess; an exception of its own logFileAccess
\* call leaves the function
checkFileAccessCatch(fs, logs, storeOk, fileId, ipAddress, userAgent, t) ==
    LET logged == logFileAccess(logs, storeOk,
                      logEntry(fileId, Undefined, ipAddress, userAgent,
                               "access_check", FALSE, "error.message", t))
    IN  accessOutcome(accessDecision(FALSE, "Access check failed", Undefined,
                                     Undefined),
                      logged.logs, fs, logged.threw)

\* a branch of checkFileAccess that awaits logFileAccess(entry) and returns
checkFileAccessLogged(decision, entry, fs, logs, storeOk, fileId, ipAddress, userAgent, t) ==
    LET logged == logFileAccess(logs, storeOk, entry)
    IN  IF logged.threw
        THEN checkFileAccessCatch(fs, logged.logs, storeOk, fileId, ipAddress,
                                  userAgent, t)
        ELSE accessOutcome(decision, logged.logs, fs, FALSE)

\* the branch checkFileAccess(fileId, sessionToken) takes at Date.now() = t
checkFileAccessBranchAuthFirst(fs, ss, fileId, sessionToken, t) ==
    LET file == getFileById(fs, fileId)
        user == verifySession(ss, sessionToken)
    IN  IF file = Undefined THEN "file not found"
        ELSE IF fileExpired(file[1], t) THEN "file expired"
        ELSE IF sessionToken # "" /\ user = Undefined THEN "invalid session"
        ELSE IF user # Undefined /\ file[1].user_id = user[1].id THEN "owner"
        ELSE IF file[1].is_public THEN "public"
        ELSE IF sessionToken = "" THEN "authentication required"
        ELSE "not owner"
checkFileAccessBranchNoOwnerCheck(fs, ss, fileId, sessionToken, t) ==
    LET file == getFileById(fs, fileId)
        user == verifySession(ss, sessionToken)
    IN  IF file = Undefined THEN "file not found"
        ELSE IF fileExpired(file[1], t) THEN "file expired"
        ELSE IF file[1].is_public THEN "public"
        ELSE IF sessionToken = "" THEN "authentication required"
        ELSE IF user = Undefined THEN "invalid session"
        ELSE "owner"
checkFileAccessBranchNoExpiryCheck(fs, ss, fileId, sessionToken, t) ==
    LET file == getFileById(fs, fileId)
        user == verifySession(ss, sessionToken)
    IN  IF file = Undefined THEN "file not found"
        ELSE IF file[1].is_public THEN "public"
        ELSE IF sessionToken = "" THEN "authentication required"
        ELSE IF user = Undefined THEN "invalid session"
        ELSE IF file[1].user_id # user[1].id THEN "not owner"
        ELSE "owner"
checkFileAccessBranch(fs, ss, fileId, sessionToken, t) ==
    LET file == getFileById(fs, fileId)
        user == verifySession(ss, sessionToken)
    IN  IF file = Undefined THEN "file not found"
        ELSE IF fileExpired(file[1], t) THEN "file expired"
        ELSE IF file[1].is_public THEN "public"
        ELSE IF sessionToken = "" THEN "authentication required"
        ELSE IF user = Undefined THEN "invalid session"
        ELSE IF file[1].user_id # user[1].id THEN "not owner"
        ELSE "owner"

\* checkFileAccess(fileId, sessionToken, ipAddress, userAgent) at
\* Date.now() = t: what each branch logs and returns
checkFileAccessTouchesFile(fs, ss, logs, storeOk, fileId, sessionToken, ipAddress, userAgent, t) ==
    LET branch == checkFileAccessBranch(fs, ss, fileId, sessionToken, t)
        user == verifySession(ss, sessionToken)
        entry(user_id, success, error_message) ==
            logEntry(fileId, user_id, ipAddress, userAgent, "access_check",
                     success, error_message, t)
        silent(decision, fs2) == accessOutcome(decision, logs, fs2, FALSE)
        logged(decision, e, fs2) ==
            checkFileAccessLogged(decision, e, fs2, logs, storeOk, fileId,
                                  ipAddress, userAgent, t)
    IN  CASE branch = "file not found" ->
               silent(accessDecision(FALSE, "File not found", Undefined,
                                     Undefined), fs)
          [] branch = "file expired" ->
               silent(accessDecision(FALSE, "File has expired", Undefined,
                                     Undefined), deleteFile(fs, fileId))
          [] branch = "public" ->
               logged(accessDecision(TRUE, "", Undefined, Some(FALSE)),
                      entry(Undefined, TRUE, ""),
                      incrementDownloadCount(fs, fileId))
          [] branch = "authentication required" ->
               silent(accessDecision(FALSE,
                          "Authentication required for private file",
                          Some(TRUE), Undefined), fs)
          [] branch = "invalid session" ->
               logged(accessDecision(FALSE, "Invalid or expired session",
                                     Some(TRUE), Undefined),
                      entry(Undefined, FALSE, "Invalid session"), fs)
          [] branch = "not owner" ->
               logged(accessDecision(FALSE,
                          "Access denied - you are not the owner of this file",
                          Undefined, Undefined),
                      entry(Some(user[1].id), FALSE,
                            "Access denied - not file owner"), fs)
          [] branch = "owner" ->
               logged(accessDecision(TRUE, "", Undefined, Some(TRUE)),
                      entry(Some(user[1].id), TRUE, ""),
                      incrementDownloadCount(fs, fileId))
checkFileAccess(fs, ss, logs, storeOk, fileId, sessionToken, ipAddress, userAgent, t) ==
    LET branch == checkFileAccessBranch(fs, ss, fileId, sessionToken, t)
        user == verifySession(ss, sessionToken)
        entry(user_id, success, error_message) ==
            logEntry(fileId, user_id, ipAddress, userAgent, "access_check",
                     success, error_message, t)
        silent(decision) == accessOutcome(decision, logs, fs, FALSE)
        logged(decision, e) ==
            checkFileAccessLogged(decision, e, fs, logs, storeOk, fileId,
                                  ipAddress, userAgent, t)
    IN  CASE branch = "file not found" ->
               silent(accessDecision(FALSE, "File not found", Undefined,
                                     Undefined))
          [] branch = "file expired" ->
               silent(accessDecision(FALSE, "File has expired", Undefined,
                                     Undefined))
          [] branch = "public" ->
               logged(accessDecision(TRUE, "", Undefined, Some(FALSE)),
                      entry(Undefined, TRUE, ""))
          [] branch = "authentication required" ->
               silent(accessDecision(FALSE,
                          "Authentication required for private file",
                          Some(TRUE), Undefined))
          [] branch = "invalid session" ->
               logged(accessDecision(FALSE, "Invalid or expired session",
                                     Some(TRUE), Undefined),
                      entry(Undefined, FALSE, "Invalid session"))
          [] branch = "not owner" ->
               logged(accessDecision(FALSE,
                          "Access denied - you are not the owner of this file",
                          Undefined, Undefined),
                      entry(Some(user[1].id), FALSE,
                            "Access denied - not file owner"))
          [] branch = "owner" ->
               logged(accessDecision(TRUE, "", Undefined, Some(TRUE)),
                      entry(Some(user[1].id), TRUE, ""))

\* `generate_${options.action || 'download'}_url`
generateUrlAction(action) ==
    LET a == IF action = Undefined THEN "download" ELSE action[1]
    IN  CASE a = "download" -> "generate_download_url"
          [] a = "view" -> "generate_view_url"
          [] a = "info" -> "generate_info_url"

\* generateSecureDownloadUrl(fileId, sessionToken, options); t1 and t2 are the
\* two clock readings of generateSignedUrl.  Its catch block logs nothing.
generateSecureDownloadUrlNoAccessCheck(fs, ss, logs, storeOk, fileId, sessionToken, options, t1, t2) ==
    Bind(checkFileAccess(fs, ss, logs, storeOk, fileId, sessionToken,
                         options.ipAddress, options.userAgent, t1),
         LAMBDA accessCheck :
    LET user == verifySession(ss, sessionToken)
        logged == logFileAccess(accessCheck.logs, storeOk,
                      logEntry(fileId, Some(user[1].id), options.ipAddress,
                               options.userAgent,
                               generateUrlAction(options.action),
                               TRUE, "", t2))
    IN  IF user = Undefined
        THEN [success |-> FALSE, url |-> Undefined, error |-> "Invalid session",
              logs |-> accessCheck.logs]
        ELSE [success |-> TRUE,
              url |-> Some(generateSignedUrl(
                          [fileId |-> fileId, userId |-> user[1].id,
                           expiresIn |-> options.expiresIn,
                           action |-> options.action,
                           ipAddress |-> options.ipAddress,
                           userAgent |-> options.userAgent], t1, t2)),
              error |-> "", logs |-> logged.logs])
generateSecureDownloadUrl(fs, ss, logs, storeOk, fileId, sessionToken, options, t1, t2) ==
    Bind(checkFileAccess(fs, ss, logs, storeOk, fileId, sessionToken,
                         options.ipAddress, options.userAgent, t1),
         LAMBDA accessCheck :
    LET user == verifySession(ss, sessionToken)
        logged == logFileAccess(accessCheck.logs, storeOk,
                      logEntry(fileId, Some(user[1].id), options.ipAddress,
                               options.userAgent,
                               generateUrlAction(options.action),
                               TRUE, "", t2))
        failed == [success |-> FALSE, url |-> Undefined,
                   error |-> "Failed to generate secure URL"]
    IN  IF accessCheck.threw
        THEN failed @@ [logs |-> accessCheck.logs]
        ELSE IF ~accessCheck.canAccess
        THEN [success |-> FALSE, url |-> Undefined,
              error |-> IF accessCheck.reason # "" THEN accessCheck.reason
                        ELSE "Access denied",
              logs |-> accessCheck.logs]
        ELSE IF user = Undefined
        THEN [success |-> FALSE, url |-> Undefined, error |-> "Invalid session",
              logs |-> accessCheck.logs]
        ELSE IF logged.threw
        THEN failed @@ [logs |-> logged.logs]
        ELSE [success |-> TRUE,
              url |-> Some(generateSignedUrl(
                          [fileId |-> fileId, userId |-> user[1].id,
                           expiresIn |-> options.expiresIn,
                           action |-> options.action,
                           ipAddress |-> options.ipAddress,
                           userAgent |-> options.userAgent], t1, t2)),
              error |-> "", logs |-> logged.logs])

\* ------------------------------------------------------------ revocation
\* database.updateFileAccessToken(fileId, newAccessToken): class Database
\* defines no such method, so the call throws a TypeError and no row changes
updateFileAccessToken(fs, fileId, newAccessToken) == [files |-> fs, threw |-> TRUE]

revokeResult(success, newAccessToken, error, fs, logs) ==
    [success |-> success, newAccessToken |-> newAccessToken, error |-> error,
     files |-> fs, logs |-> logs]

\* revokeFileAccess(fileId, userId) at Date.now() = t; newAccessToken is the
\* value of crypto.randomBytes(32).toString('hex')
revokeFileAccessAnyUser(fs, logs, storeOk, fileId, userId, newAccessToken, t) ==
    LET file == getFileById(fs, fileId)
        updated == updateFileAccessToken(fs, fileId, newAccessToken)
        logged == logFileAccess(logs, storeOk,
                      logEntry(fileId, Some(userId), "", "", "revoke_access",
                               TRUE, "", t))
    IN  IF file = Undefined
        THEN revokeResult(FALSE, Undefined, "File not found", fs, logs)
        ELSE IF updated.threw
        THEN revokeResult(FALSE, Undefined, "Failed to revoke access",
                          updated.files, logs)
        ELSE IF logged.threw
        THEN revokeResult(FALSE, Undefined, "Failed to revoke access",
                          updated.files, logged.logs)
        ELSE revokeResult(TRUE, Some(newAccessToken), "", updated.files,
                          logged.logs)
revokeFileAccess(fs, logs, storeOk, fileId, userId, newAccessToken, t) ==
    LET file == getFileById(fs, fileId)
        updated == updateFileAccessToken(fs, fileId, newAccessToken)
        logged == logFileAccess(logs, storeOk,
                      logEntry(fileId, Some(userId), "", "", "revoke_access",
                               TRUE, "", t))
    IN  IF file = Undefined
        THEN revokeResult(FALSE, Undefined, "File not found", fs, logs)
        ELSE IF file[1].user_id # userId
        THEN revokeResult(FALSE, Undefined,
                          "Access denied - you are not the owner of this file",
                          fs, logs)
        ELSE IF updated.threw
        THEN revokeResult(FALSE, Undefined, "Failed to revoke access",
                          updated.files, logs)
        ELSE IF logged.threw
        THEN revokeResult(FALSE, Undefined, "Failed to revoke access",
                          updated.files, logged.logs)
        ELSE revokeResult(TRUE, Some(newAccessToken), "", updated.files,
                          logged.logs)

\* ------------------------------------------------------------- endpoints
response(status, error, body, served) ==
    [status |-> status, error |-> error, body |-> body, served |-> served]

\* a branch of the secure GET that awaits logFileAccess(entry) and answers
\* resp; an exception goes to the catch block, which logs and answers 500,
\* and an exception of the catch block leaves the handler
secureGETUnlogged(resp, entry, fs, map, logs, storeOk, fileId, ipAddress, userAgent, t) ==
    [resp |-> resp, files |-> fs, map |-> map,
     logs |-> IF resp.status = 200 THEN logFileAccess(logs, storeOk, entry).logs
              ELSE logs]
secureGETLogged(resp, entry, fs, map, logs, storeOk, fileId, ipAddress, userAgent, t) ==
    LET logged == logFileAccess(logs, storeOk, entry)
        caught == logFileAccess(logged.logs, storeOk,
                      logEntry(fileId, Undefined, ipAddress, userAgent,
                               "secure_access", FALSE, "error.message", t))
    IN  IF ~logged.threw
        THEN [resp |-> resp, files |-> fs, map |-> map, logs |-> logged.logs]
        ELSE IF ~caught.threw
        THEN [resp |-> response(500, "Internal server error", "", Undefined),
              files |-> fs, map |-> map, logs |-> caught.logs]
        ELSE [resp |-> response(500, "unhandled rejection", "", Undefined),
              files |-> fs, map |-> map, logs |-> caught.logs]

\* GET /api/files/secure/{fileId}?token=&action= from client IP ipAddress
\* ("unknown" when no header gives one) with User-Agent userAgent ("" when
\* absent): the response, the files, the rate-limit map and the log afterwards
secureGET(fs, map, logs, storeOk, fileId, token, action, ipAddress, userAgent, t) ==
    LET rateLimit == checkRateLimit(map, <<"file_access", ipAddress>>, 30, 15, t)
        verification == verifySignedUrl(fileId, token[1], action, ipAddress,
                                        userAgent, t)
        fileInfo == getFileInfo(fs, fileId)
        fileData == downloadFile(fs, fileInfo[1].rec.access_token, t)
        userId == Some(verification.payload[1].userId)
        entry(file_id, user_id, logAction, success, error_message) ==
            logEntry(file_id, user_id, ipAddress, userAgent, logAction, success,
                     error_message, t)
        answer(resp, e, fs2, map2) ==
            secureGETLogged(resp, e, fs2, map2, logs, storeOk, fileId,
                            ipAddress, userAgent, t)
    IN  IF fileId = "" \/ token = Undefined
        THEN answer(response(400, "File ID and access token are required", "",
                             Undefined),
                    entry(IF fileId = "" THEN "unknown" ELSE fileId, Undefined,
                          "secure_access", FALSE, "Missing file ID or token"),
                    fs, map)
        ELSE IF ~rateLimit.allowed
        THEN answer(response(429, "Rate limit exceeded", "", Undefined),
                    entry(fileId, Undefined, "secure_access", FALSE,
                          "Rate limit exceeded"),
                    fs, rateLimit.map)
        ELSE IF ~verification.valid
        THEN answer(response(403, verification.error, "", Undefined),
                    entry(fileId, Undefined, "secure_access", FALSE,
                          "Invalid signed URL: " \o verification.error),
                    fs, rateLimit.map)
        ELSE IF fileInfo = Undefined
        THEN answer(response(404, "File not found", "", Undefined),
                    entry(fileId, userId, "secure_access", FALSE, "File not found"),
                    fs, rateLimit.map)
        ELSE IF fileExpired(fileInfo[1].rec, t)
        THEN answer(response(410, "File has expired", "", Undefined),
                    entry(fileId, userId, "secure_access", FALSE,
                          "File has expired"),
                    fs, rateLimit.map)
        ELSE IF /\ ~fileInfo[1].rec.is_public
                /\ fileInfo[1].rec.user_id # verification.payload[1].userId
        THEN answer(response(403, "Access denied", "", Undefined),
                    entry(fileId, userId, "secure_access", FALSE,
                          "Access denied - not file owner"),
                    fs, rateLimit.map)
        ELSE IF action = "info"
        THEN answer(response(200, "", "metadata", Some(fileInfo[1].id)),
                    entry(fileId, userId, "info_access", TRUE, ""),
                    fs, rateLimit.map)
        ELSE IF fileData.data = Undefined
        THEN answer(response(404, "File not available", "", Undefined),
                    entry(fileId, userId, "secure_access", FALSE,
                          "File data not available"),
                    fileData.files, rateLimit.map)
        ELSE answer(response(200, "", "content", fileData.data),
                    entry(fileId, userId,
                          IF action = "view" THEN "view_access"
                          ELSE "download_access", TRUE, ""),
                    fileData.files, rateLimit.map)

\* GET /api/files/{token}[?info=true]: the response and the files afterwards
legacyGET(fs, token, infoOnly, t) ==
    LET fileInfo == getFileInfo(fs, token)
        fileData == downloadFile(fs, token, t)
    IN  IF token = ""
        THEN [resp |-> response(400, "Access token is required", "", Undefined),
              files |-> fs]
        ELSE IF infoOnly
        THEN IF fileInfo = Undefined
             THEN [resp |-> response(404, "File not found or access denied", "",
                                     Undefined),
                   files |-> fs]
             ELSE IF fileExpired(fileInfo[1].rec, t)
             THEN [resp |-> response(410, "File has expired", "", Undefined),
                   files |-> fs]
             ELSE [resp |-> response(200, "", "metadata", Some(fileInfo[1].id)),
                   files |-> fs]
        ELSE IF fileData.data = Undefined
        THEN [resp |-> response(404, "File not found, expired, or access denied",
                                "", Undefined),
              files |-> fileData.files]
        ELSE [resp |-> response(200, "", "content", fileData.data),
              files |-> fileData.files]

\* the lifetime POST /api/files/generate-url passes on: min 1 minute, max 24 h
postActualExpiry(expiresIn) == Min(Max(expiresIn, 60), 24 * 60 * 60)

issueResult(status, error, url, expiresAt) ==
    [status |-> status, error |-> error, url |-> url, expiresAt |-> expiresAt]

\* POST /api/files/generate-url with body = [fileId, expiresIn, action,
\* restrictToIP, restrictToUserAgent] and the session token of the request;
\* t1, t2 are the clock readings of generateSignedUrl, t2 also that of the
\* expiry reported
postGenerateUrl(fs, ss, map, logs, storeOk, body, sessionToken, ipAddress, userAgent, t1, t2) ==
    LET rateLimit == checkRateLimit(map, <<"url_generation", ipAddress>>, 20, 10, t1)
        user == verifySession(ss, sessionToken)
        expiresIn == IF body.expiresIn = Undefined THEN 900 ELSE body.expiresIn[1]
        action == IF body.action = Undefined THEN "download" ELSE body.action[1]
        actualExpiry == postActualExpiry(expiresIn)
        file == getFileById(fs, body.fileId)
        urlResult == generateSecureDownloadUrl(fs, ss, logs, storeOk, body.fileId,
                        sessionToken,
                        [expiresIn |-> Some(actualExpiry), action |-> Some(action),
                         ipAddress |-> IF body.restrictToIP THEN ipAddress ELSE "",
                         userAgent |-> IF body.restrictToUserAgent
                                       THEN userAgent ELSE ""], t1, t2)
    IN  IF ~rateLimit.allowed
        THEN [resp |-> issueResult(429, "Rate limit exceeded for URL generation",
                                   Undefined, Undefined),
              map |-> rateLimit.map, logs |-> logs]
        ELSE IF user = Undefined
        THEN [resp |-> issueResult(401, "Authentication required", Undefined,
                                   Undefined),
              map |-> rateLimit.map, logs |-> logs]
        ELSE IF body.fileId = ""
        THEN [resp |-> issueResult(400, "File ID is required", Undefined, Undefined),
              map |-> rateLimit.map, logs |-> logs]
        ELSE IF action \notin {"download", "view", "info"}
        THEN [resp |-> issueResult(400, "Invalid action", Undefined, Undefined),
              map |-> rateLimit.map, logs |-> logs]
        ELSE IF file = Undefined
        THEN [resp |-> issueResult(404, "File not found", Undefined, Undefined),
              map |-> rateLimit.map, logs |-> logs]
        ELSE IF ~file[1].is_public /\ file[1].user_id # user[1].id
        THEN [resp |-> issueResult(403,
                          "Access denied - you are not the owner of this file",
                          Undefined, Undefined),
              map |-> rateLimit.map, logs |-> logs]
        ELSE IF fileExpired(file[1], t1)
        THEN [resp |-> issueResult(410, "File has expired", Undefined, Undefined),
              map |-> rateLimit.map, logs |-> logs]
        ELSE Bind(urlResult, LAMBDA generated :
                 IF ~generated.success
                 THEN [resp |-> issueResult(500, generated.error, Undefined,
                                            Undefined),
                       map |-> rateLimit.map, logs |-> generated.logs]
                 ELSE [resp |-> issueResult(200, "", generated.url,
                                            Some(t2 + actualExpiry * 1000)),
                       map |-> rateLimit.map, logs |-> generated.logs])

batchResult(fileId, success, error, url, expiresAt) ==
    [fileId |-> fileId, success |-> success, error |-> error, url |-> url,
     expiresAt |-> expiresAt]

\* one pass of the loop of PUT /api/files/generate-url: the result pushed
\* and the log afterwards
putOneFile(fs, ss, logs, storeOk, fileId, user, expiresIn, action, sessionToken, ipAddress, userAgent, body, t1, t2) ==
    LET file == getFileById(fs, fileId)
        generated ==
            Bind(generateSecureDownloadUrl(fs, ss, logs, storeOk, fileId,
                     sessionToken,
                     [expiresIn |-> Some(expiresIn), action |-> Some(action),
                      ipAddress |-> IF body.restrictToIP THEN ipAddress ELSE "",
                      userAgent |-> IF body.restrictToUserAgent
                                    THEN userAgent ELSE ""], t1, t2),
                 LAMBDA urlResult :
                     IF urlResult.success
                     THEN [result |-> batchResult(fileId, TRUE, "", urlResult.url,
                                                  Some(t2 + expiresIn * 1000)),
                           logs |-> urlResult.logs]
                     ELSE [result |-> batchResult(fileId, FALSE, urlResult.error,
                                                  Undefined, Undefined),
                           logs |-> urlResult.logs])
    IN  IF file = Undefined
        THEN [result |-> batchResult(fileId, FALSE, "File not found", Undefined,
                                     Undefined),
              logs |-> logs]
        ELSE IF ~file[1].is_public /\ file[1].user_id # user[1].id
        THEN [result |-> batchResult(fileId, FALSE, "Access denied", Undefined,
                                     Undefined),
              logs |-> logs]
        ELSE generated

\* the loop of PUT /api/files/generate-url over fileIds: after[n] holds the
\* results pushed and the log once fileIds[1..n] have been handled
putLoopStopsAtFailure(fs, ss, logs, storeOk, user, expiresIn, action, sessionToken, ipAddress, userAgent, body, t1, t2) ==
    LET after[n \in 0 .. Len(body.fileIds)] ==
            IF n = 0
            THEN [results |-> <<>>, logs |-> logs, stopped |-> FALSE]
            ELSE Bind(after[n - 1], LAMBDA before :
                 IF before.stopped
                 THEN before
                 ELSE Bind(putOneFile(fs, ss, before.logs, storeOk, body.fileIds[n],
                                      user, expiresIn, action, sessionToken,
                                      ipAddress, userAgent, body, t1, t2),
                           LAMBDA one :
                               [results |-> Append(before.results, one.result),
                                logs |-> one.logs,
                                stopped |-> ~one.result.success]))
    IN  [results |-> after[Len(body.fileIds)].results,
         logs |-> after[Len(body.fileIds)].logs]
putLoop(fs, ss, logs, storeOk, user, expiresIn, action, sessionToken, ipAddress, userAgent, body, t1, t2) ==
    LET after[n \in 0 .. Len(body.fileIds)] ==
            IF n = 0
            THEN [results |-> <<>>, logs |-> logs]
            ELSE Bind(after[n - 1], LAMBDA before :
                 Bind(putOneFile(fs, ss, before.logs, storeOk, body.fileIds[n],
                                 user, expiresIn, action, sessionToken,
                                 ipAddress, userAgent, body, t1, t2),
                      LAMBDA one :
                          [results |-> Append(before.results, one.result),
                           logs |-> one.logs]))
    IN  after[Len(body.fileIds)]

batchResponse(status, error, results) ==
    [status |-> status, error |-> error, results |-> results]

\* PUT /api/files/generate-url with body = [fileIds, expiresIn, action,
\* restrictToIP, restrictToUserAgent]
putGenerateUrls(fs, ss, map, logs, storeOk, body, sessionToken, ipAddress, userAgent, t1, t2) ==
    LET rateLimit == checkRateLimit(map, <<"batch_url_generation", ipAddress>>,
                                    5, 10, t1)
        user == verifySession(ss, sessionToken)
        expiresIn == IF body.expiresIn = Undefined THEN 900 ELSE body.expiresIn[1]
        action == IF body.action = Undefined THEN "download" ELSE body.action[1]
        loop == putLoop(fs, ss, logs, storeOk, user, expiresIn, action,
                        sessionToken, ipAddress, userAgent, body, t1, t2)
    IN  IF ~rateLimit.allowed
        THEN [resp |-> batchResponse(429,
                          "Rate limit exceeded for batch URL generation", <<>>),
              map |-> rateLimit.map, logs |-> logs]
        ELSE IF user = Undefined
        THEN [resp |-> batchResponse(401, "Authentication required", <<>>),
              map |-> rateLimit.map, logs |-> logs]
        ELSE IF Len(body.fileIds) = 0
        THEN [resp |-> batchResponse(400, "File IDs array is required", <<>>),
              map |-> rateLimit.map, logs |-> logs]
        ELSE IF Len(body.fileIds) > 10
        THEN [resp |-> batchResponse(400, "Maximum 10 files per batch request", <<>>),
              map |-> rateLimit.map, logs |-> logs]
        ELSE Bind(loop, LAMBDA done :
                 [resp |-> batchResponse(200, "", done.results),
                  map |-> rateLimit.map, logs |-> done.logs])

\* ------------------------------------------------------ the access-log API
\* the characters of the client addresses of the model: an IPv4 address, the
\* IPv6 loopback address, a full IPv6 address, and the placeholder of getClientIP
UnknownAddress == <<"u", "n", "k", "n", "o", "w", "n">>
address(ip) ==
    CASE ip = "" -> <<>>
      [] ip = "unknown" -> UnknownAddress
      [] ip = "ip1" -> <<"1", "0", ".", "0", ".", "0", ".", "1">>
      [] ip = "ip2" -> <<":", ":", "1">>
      [] ip = "ip3" -> <<"2", "0", "0", "1", ":", "d", "b", "8", ":", ":", "8", "a", "2", "e">>

\* maskIPAddress(ip) on the characters of ip
maskIPAddress(ip) ==
    LET dots == {i \in DOMAIN ip : ip[i] = "."}
        second == CHOOSE d \in dots : Cardinality({e \in dots : e < d}) = 1
    IN  IF ip = <<>> \/ ip = UnknownAddress
        THEN UnknownAddress
        ELSE IF Cardinality(dots) = 3
        THEN SubSeq(ip, 1, second - 1) \o <<".", "*", ".", "*", "*", "*">>
        ELSE IF Len(ip) > 8
        THEN SubSeq(ip, 1, 8) \o <<"*", "*", "*">>
        ELSE ip

\* a row as the access-log API returns it; the user agents of the model are
\* shorter than the 100 characters from which truncateUserAgent cuts
sanitizedLog(row) ==
    [row EXCEPT !.ip_address = IF @ # "" THEN Some(maskIPAddress(address(@)))
                               ELSE Undefined,
                !.user_agent = IF @ # "" THEN Some(@) ELSE Undefined]

\* database.getFileAccessLogs(userId, fileId, limit, offset).  class Database
\* defines no such method, so the call throws a TypeError (storeOk = FALSE);
\* storeOk = TRUE is the log store the specification describes, which answers
\* the rows of the files that userId owns, of fileId alone when it is given,
\* limit rows from offset on
databaseGetFileAccessLogs(fs, logs, storeOk, userId, fileId, limit, offset) ==
    LET owned(e) ==
            /\ getFileById(fs, e.file_id) # Undefined
            /\ getFileById(fs, e.file_id)[1].user_id = userId
        rows == SelectSeq(logs, LAMBDA e :
                    owned(e) /\ (fileId = Undefined \/ e.file_id = fileId[1]))
    IN  [rows |-> IF storeOk
                  THEN SubSeq(rows, offset + 1, Min(offset + limit, Len(rows)))
                  ELSE <<>>,
         threw |-> ~storeOk]

\* secure-access getFileAccessLogs(userId, fileId, limit, offset)
getFileAccessLogs(fs, logs, storeOk, userId, fileId, limit, offset) ==
    LET found == databaseGetFileAccessLogs(fs, logs, storeOk, userId, fileId,
                                           limit, offset)
    IN  IF found.threw THEN <<>> ELSE found.rows

\* auth requireAuth(request): the user, or the message of the error thrown
requireAuth(ss, sessionToken) ==
    IF sessionToken = ""
    THEN [user |-> Undefined, error |-> "Authentication required"]
    ELSE IF verifySession(ss, sessionToken) = Undefined
    THEN [user |-> Undefined, error |-> "Invalid or expired session"]
    ELSE [user |-> verifySession(ss, sessionToken), error |-> ""]

\* the check of the fileId parameter of GET /api/files/access-logs: the
\* refusal, or null when the query goes on
logsFileCheckNoOwnerCheck(fs, user, fileId) ==
    IF fileId # "" /\ getFileById(fs, fileId) = Undefined
    THEN Some([status |-> 404, error |-> "File not found"])
    ELSE Undefined
logsFileCheck(fs, user, fileId) ==
    IF fileId = ""
    THEN Undefined
    ELSE IF getFileById(fs, fileId) = Undefined
    THEN Some([status |-> 404, error |-> "File not found"])
    ELSE IF getFileById(fs, fileId)[1].user_id # user.id
    THEN Some([status |-> 403,
               error |-> "Access denied - you are not the owner of this file"])
    ELSE Undefined

\* the hours of the timeRange parameter, for the filter and for the scan
rangeHours(timeRange) ==
    CASE timeRange = "1h" -> 1
      [] timeRange = "7d" -> 7 * 24
      [] timeRange = "30d" -> 30 * 24
      [] OTHER -> 24
scanHours(timeRange) ==
    CASE timeRange = "1h" -> 1
      [] timeRange = "24h" -> 24
      [] timeRange = "7d" -> 168
      [] OTHER -> 720

\* the statistics of the rows returned
logStats(rows, logs, storeOk, fileId, timeRange, t) ==
    LET totalAccesses == Len(rows)
        successfulAccesses == Cardinality({i \in DOMAIN rows : rows[i].success})
        failedAccesses == totalAccesses - successfulAccesses
        uniqueIPs == Cardinality({rows[i].ip_address : i \in DOMAIN rows}
                                     \ {"", "unknown"})
        scan == detectSuspiciousActivity(logs, storeOk, fileId,
                                         scanHours(timeRange), t)
        basic ==
            (IF failedAccesses > 50
             THEN << <<"High number of failed access attempts", failedAccesses>> >>
             ELSE <<>>)
            \o (IF uniqueIPs > 50
                THEN << <<"Unusually high number of unique IP addresses", uniqueIPs>> >>
                ELSE <<>>)
            \o (IF totalAccesses > 10 /\ 10 * failedAccesses > 3 * totalAccesses
                THEN << <<"High failure rate",
                          failurePercent(failedAccesses, totalAccesses)>> >>
                ELSE <<>>)
    IN  [totalAccesses |-> totalAccesses,
         successfulAccesses |-> successfulAccesses,
         failedAccesses |-> failedAccesses,
         uniqueIPs |-> uniqueIPs,
         suspiciousActivity |-> IF fileId # "" THEN scan.isSuspicious
                                ELSE Len(basic) > 0,
         suspiciousReasons |-> IF fileId # "" THEN scan.reasons ELSE basic]

logsResponse(status, error, logs, stats) ==
    [status |-> status, error |-> error, logs |-> logs, stats |-> stats]

\* GET /api/files/access-logs with query = [fileId, timeRange, limit, offset]
\* at Date.now() = t: the response, and the rows behind it before they are
\* sanitized
getAccessLogs(fs, ss, logs, storeOk, query, sessionToken, t) ==
    LET auth == requireAuth(ss, sessionToken)
        limit == Min(query.limit, 100)
        offset == Max(query.offset, 0)
        since == t - rangeHours(query.timeRange) * 60 * 60 * 1000
        refusal == logsFileCheck(fs, auth.user[1], query.fileId)
    IN  IF auth.user = Undefined
        THEN [resp |-> logsResponse(401, "Authentication required", <<>>, Undefined),
              rows |-> <<>>]
        ELSE IF refusal # Undefined
        THEN [resp |-> logsResponse(refusal[1].status, refusal[1].error, <<>>,
                                    Undefined),
              rows |-> <<>>]
        ELSE Bind(SelectSeq(getFileAccessLogs(fs, logs, storeOk, auth.user[1].id,
                                IF query.fileId # "" THEN Some(query.fileId)
                                ELSE Undefined, limit, offset),
                            LAMBDA e : e.created_at >= since),
                  LAMBDA filteredLogs :
                      [resp |-> logsResponse(200, "",
                                    [i \in DOMAIN filteredLogs |->
                                        sanitizedLog(filteredLogs[i])],
                                    Some(logStats(filteredLogs, logs, storeOk,
                                                  query.fileId, query.timeRange, t))),
                       rows |-> filteredLogs])

\* file-utils deleteFile(fileId): whether it succeeded and the files
\* afterwards; unlinkOk is whether the file could be removed from the disk
deleteFileOfDisk(fs, fileId, unlinkOk) ==
    IF getFileById(fs, fileId) = Undefined
    THEN [ok |-> FALSE, files |-> fs]
    ELSE IF ~unlinkOk
    THEN [ok |-> FALSE, files |-> fs]
    ELSE [ok |-> TRUE, files |-> deleteFile(fs, fileId)]

deleteResult(status, error) == [status |-> status, error |-> error]

\* the DELETE handler of the file-deletion route with body = [fileId] at
\* Date.now() = t
deleteDELETE(fs, ss, map, logs, storeOk, body, sessionToken, ipAddress, userAgent, unlinkOk, t) ==
    LET rateLimit == checkRateLimit(map, <<"file_deletion", ipAddress>>, 10, 10, t)
        auth == requireAuth(ss, sessionToken)
        file == getFileById(fs, body.fileId)
        deleted == deleteFileOfDisk(fs, body.fileId, unlinkOk)
        answer(status, error, fs2, action, success, error_message) ==
            [resp |-> deleteResult(status, error), files |-> fs2,
             map |-> rateLimit.map,
             logs |-> logFileAccess(logs, storeOk,
                          logEntry(body.fileId, Some(auth.user[1].id), ipAddress,
                                   userAgent, action, success, error_message,
                                   t)).logs]
        silent(status, error) ==
            [resp |-> deleteResult(status, error), files |-> fs,
             map |-> rateLimit.map, logs |-> logs]
    IN  IF ~rateLimit.allowed
        THEN silent(429, "Rate limit exceeded for file deletion")
        ELSE IF auth.user = Undefined
        THEN silent(401, "Authentication required")
        ELSE IF body.fileId = ""
        THEN silent(400, "File ID is required")
        ELSE IF file = Undefined
        THEN answer(404, "File not found", fs, "delete_attempt", FALSE,
                    "File not found")
        ELSE IF file[1].user_id # auth.user[1].id
        THEN answer(403, "Access denied - you are not the owner of this file", fs,
                    "delete_attempt", FALSE, "Access denied - not file owner")
        ELSE IF ~deleted.ok
        THEN answer(500, "Failed to delete file", fs, "delete_attempt", FALSE,
                    "Failed to delete file")
        ELSE answer(200, "", deleted.files, "file_deleted", TRUE, "")

\* one entry of the results of a batch deletion
batchDeleteResult(fileId, success, error) ==
    [fileId |-> fileId, success |-> success, error |-> error]

\* the batch handler's loop with the ownership test left out
RECURSIVE deleteLoopNoOwnerCheck(_, _, _, _, _, _, _, _, _)
deleteLoopNoOwnerCheck(fs, logs, storeOk, user, ipAddress, userAgent, fileIds, unlinkOk, t) ==
    IF fileIds = <<>>
    THEN [results |-> <<>>, files |-> fs, logs |-> logs]
    ELSE LET fileId == Head(fileIds)
             deleted == deleteFileOfDisk(fs, fileId, unlinkOk)
             rest == deleteLoopNoOwnerCheck(deleted.files, logs, storeOk, user,
                                            ipAddress, userAgent, Tail(fileIds),
                                            unlinkOk, t)
         IN  [rest EXCEPT !.results =
                 <<batchDeleteResult(fileId, deleted.ok, "")>> \o @]

\* the loop of the batch handler over fileIds for the authenticated user: the
\* per-file results, the files and the log afterwards
RECURSIVE deleteLoop(_, _, _, _, _, _, _, _, _)
deleteLoop(fs, logs, storeOk, user, ipAddress, userAgent, fileIds, unlinkOk, t) ==
    IF fileIds = <<>>
    THEN [results |-> <<>>, files |-> fs, logs |-> logs]
    ELSE LET fileId == Head(fileIds)
             file == getFileById(fs, fileId)
             deleted == deleteFileOfDisk(fs, fileId, unlinkOk)
             logged(action, success, error_message) ==
                 logFileAccess(logs, storeOk,
                     logEntry(fileId, Some(user.id), ipAddress, userAgent, action,
                              success, error_message, t)).logs
             step(result, fs2, logs2) ==
                 Bind(deleteLoop(fs2, logs2, storeOk, user, ipAddress, userAgent,
                                 Tail(fileIds), unlinkOk, t),
                      LAMBDA rest : [rest EXCEPT !.results = <<result>> \o @])
         IN  IF file = Undefined
             THEN step(batchDeleteResult(fileId, FALSE, "File not found"), fs, logs)
             ELSE IF file[1].user_id # user.id
             THEN step(batchDeleteResult(fileId, FALSE, "Access denied"), fs,
                       logged("batch_delete_attempt", FALSE,
                              "Access denied - not file owner"))
             ELSE IF deleted.ok
             THEN step(batchDeleteResult(fileId, TRUE, ""), deleted.files,
                       logged("batch_file_deleted", TRUE, ""))
             ELSE step(batchDeleteResult(fileId, FALSE, "Failed to delete file"), fs,
                       logged("batch_delete_attempt", FALSE, "Failed to delete file"))

\* the number of results with success = b
countResults(results, b) == Cardinality({i \in DOMAIN results : results[i].success = b})

\* the summary row's error_message: `${successCount} successful, ${failureCount} failed`
batchSummary(results) ==
    ToString(countResults(results, TRUE)) \o " successful, "
        \o ToString(countResults(results, FALSE)) \o " failed"

\* the batch POST handler of the file-deletion route with body = [fileIds] at
\* Date.now() = t
deletePOST(fs, ss, map, logs, storeOk, body, sessionToken, ipAddress, userAgent, unlinkOk, t) ==
    LET rateLimit == checkRateLimit(map, <<"batch_file_deletion", ipAddress>>, 3, 15, t)
        auth == requireAuth(ss, sessionToken)
        silent(status, error) ==
            [resp |-> [status |-> status, error |-> error, results |-> <<>>],
             files |-> fs, map |-> rateLimit.map, logs |-> logs]
    IN  IF ~rateLimit.allowed
        THEN silent(429, "Rate limit exceeded for batch file deletion")
        ELSE IF auth.user = Undefined
        THEN silent(401, "Authentication required")
        ELSE IF body.fileIds = <<>>
        THEN silent(400, "File IDs array is required")
        ELSE IF Len(body.fileIds) > 20
        THEN silent(400, "Maximum 20 files can be deleted at once")
        ELSE Bind(deleteLoop(fs, logs, storeOk, auth.user[1], ipAddress, userAgent,
                             body.fileIds, unlinkOk, t),
                  LAMBDA r :
                    [resp |-> [status |-> 200, error |-> "", results |-> r.results],
                     files |-> r.files, map |-> rateLimit.map,
                     logs |-> logFileAccess(r.logs, storeOk,
                                 logEntry("batch_operation", Some(auth.user[1].id),
                                          ipAddress, userAgent,
                                          "batch_delete_completed",
                                          countResults(r.results, TRUE) > 0,
                                          batchSummary(r.results), t)).logs])

\* -------------------------------------------------- tokens an attacker forms
\* every payload that differs from p in one claim field
payloadEdits(p) ==
    ({[p EXCEPT !.fileId = f] : f \in {"f1", "f2"}}
     \cup {[p EXCEPT !.userId = u] : u \in Users}
     \cup {[p EXCEPT !.action = a] : a \in UrlActions}
     \cup {[p EXCEPT !.exp = p.exp + MAX_URL_EXPIRY], [p EXCEPT !.iat = p.iat - 1]}
     \cup {[p EXCEPT !.ip = h] : h \in {Undefined, sha256("ip2")}}
     \cup {[p EXCEPT !.ua = h] : h \in {Undefined, sha256("ua2")}}) \ {p}

\* what a party that holds the minted token t, but not the secret, can present:
\* an edited payload under the old signature or under a signature made with
\* another key, or the old payload under another key's signature
forgedTokens(t) ==
    {[payload |-> q, sig |-> s] :
        q \in payloadEdits(t.payload), s \in {t.sig}}
    \cup {jwtSign(q, ForeignSecret) : q \in payloadEdits(t.payload) \cup {t.payload}}

\* ------------------------------------------------------------ initial state
NoFile == Undefined

fileRecord(owner, isPublic, expiresAt, accessToken) ==
    Some([user_id |-> owner, is_public |-> isPublic, expires_at |-> expiresAt,
          access_token |-> accessToken, download_count |-> 0, on_disk |-> TRUE])

\* the instant at which an expiring file of the model expires (ms)
FileExpiry == 10 * 60 * 1000
\* the anomaly scan starts with a log whose rows are up to two hours old
DetectStart == 2 * 60 * 60 * 1000

InitFiles ==
    \E pub \in BOOLEAN :
        files = [f \in FileIds |->
                    CASE f = "f1" -> fileRecord("u1", pub, Some(FileExpiry), "a1")
                      [] f = "f2" -> fileRecord("u2", ~pub, Undefined, "a2")
                      [] OTHER -> NoFile]

NoResult == [kind |-> "none"]

\* no request is in flight
NoCallers == <<>>

\* the live sessions: token -> user id
InitSessions == [t \in {"s1", "s2"} |-> IF t = "s1" THEN "u1" ELSE "u2"]

\* the rate-limit map before any request
NoAttempts == [id \in {} |-> [count |-> 0, resetTime |-> 0]]

InitCodec ==
    /\ now = 0
    /\ nticks = 0
    /\ nreq = 0
    /\ tok = Undefined
    /\ files = [f \in FileIds |->
                    CASE f = "f1" -> fileRecord("u1", FALSE, Undefined, "a1")
                      [] f = "f2" -> fileRecord("u2", FALSE, Undefined, "a2")
                      [] OTHER -> NoFile]
    /\ sessions = InitSessions
    /\ accessAttempts = NoAttempts
    /\ accessLogs = <<>>
    /\ logStoreOk = FALSE
    /\ callers = NoCallers
    /\ last = NoResult

\* ------------------------------------------------------------------ actions
\* the clock advances by d ms
Tick(d) ==
    /\ nticks < MaxTicks
    /\ now' = now + d
    /\ nticks' = nticks + 1
    /\ UNCHANGED callers
    /\ UNCHANGED <<nreq, tok, files, sessions, accessAttempts, accessLogs,
                   logStoreOk, last>>

\* a call of generateSignedUrl(options); the clock advances by d ms between
\* the Date.now() of line 54 and the Date.now() of line 61
CallGenerateSignedUrl(options, d) ==
    /\ d > 0 => nticks < MaxTicks
    /\ LET url == generateSignedUrl(options, now, now + d)
       IN  /\ tok' = Some(url.token)
           /\ last' = [kind |-> "generateSignedUrl", options |-> options,
                       url |-> url, at |-> now]
    /\ now' = now + d
    /\ nticks' = IF d > 0 THEN nticks + 1 ELSE nticks
    /\ UNCHANGED callers
    /\ UNCHANGED <<nreq, files, sessions, accessAttempts, accessLogs, logStoreOk>>

\* a call of verifySignedUrl with the token in flight
CallVerifySignedUrl(fileId, action, ipAddress, userAgent) ==
    /\ tok # Undefined
    /\ last' = [kind |-> "verifySignedUrl", token |-> tok[1], minted |-> tok[1],
                fileId |-> fileId, action |-> action, ipAddress |-> ipAddress,
                userAgent |-> userAgent, at |-> now,
                result |-> verifySignedUrl(fileId, tok[1], action, ipAddress,
                                           userAgent, now)]
    /\ UNCHANGED callers
    /\ UNCHANGED <<now, nticks, nreq, tok, files, sessions, accessAttempts,
                   accessLogs, logStoreOk>>

\* a call of verifySignedUrl with a token formed from the one in flight
\* without the secret
CallVerifyForged(token, fileId, action, ipAddress, userAgent) ==
    /\ tok # Undefined
    /\ token \in forgedTokens(tok[1])
    /\ last' = [kind |-> "verifySignedUrl", token |-> token, minted |-> tok[1],
                fileId |-> fileId, action |-> action, ipAddress |-> ipAddress,
                userAgent |-> userAgent, at |-> now,
                result |-> verifySignedUrl(fileId, token, action, ipAddress,
                                           userAgent, now)]
    /\ UNCHANGED callers
    /\ UNCHANGED <<now, nticks, nreq, tok, files, sessions, accessAttempts,
                   accessLogs, logStoreOk>>

\* the inputs of the codec specification
CodecTicks == {500, 900000}
CodecOptions ==
    [fileId : {"f1"}, userId : {"u1"},
     expiresIn : {Undefined, Some(0 - 60), Some(100000)},
     action : {Undefined},
     ipAddress : {"", "ip1"}, userAgent : {"", "ua1"}]

NextCodec ==
    \/ \E d \in CodecTicks : Tick(d)
    \/ \E o \in CodecOptions, d \in {0, 500} : CallGenerateSignedUrl(o, d)
    \/ \E f \in {"f1", "f2"}, a \in {"download", "info"}, ip \in IPs \cup {""},
          ua \in UserAgents \cup {""} : CallVerifySignedUrl(f, a, ip, ua)
    \/ \E t \in (IF tok = Undefined THEN {} ELSE forgedTokens(tok[1])) :
          CallVerifyForged(t, t.payload.fileId, t.payload.action, "ip1", "ua1")

SpecCodec == InitCodec /\ [][NextCodec]_vars

\* a call of checkFileAccess(fileId, sessionToken, ipAddress, userAgent)
CallCheckFileAccess(fileId, sessionToken, ipAddress, userAgent) ==
    /\ nreq < MaxRequests
    /\ nreq' = nreq + 1
    /\ LET r == checkFileAccess(files, sessions, accessLogs, logStoreOk, fileId,
                                sessionToken, ipAddress, userAgent, now)
       IN  /\ files' = r.files
           /\ accessLogs' = r.logs
           /\ last' = [kind |-> "checkFileAccess", fileId |-> fileId,
                       sessionToken |-> sessionToken, ipAddress |-> ipAddress,
                       userAgent |-> userAgent, at |-> now,
                       logged |-> Len(r.logs) - Len(accessLogs),
                       threw |-> r.threw,
                       result |-> accessDecision(r.canAccess, r.reason,
                                                 r.requiresAuth, r.isOwner)]
    /\ UNCHANGED callers
    /\ UNCHANGED <<now, nticks, tok, sessions, accessAttempts, logStoreOk>>

\* GET /api/files/secure/{fileId}; sessionToken is the session the requester
\* holds, which the handler does not read
SecureGet(fileId, token, action, ipAddress, userAgent, sessionToken) ==
    /\ nreq < MaxRequests
    /\ nreq' = nreq + 1
    /\ LET r == secureGET(files, accessAttempts, accessLogs, logStoreOk, fileId,
                          token, action, ipAddress, userAgent, now)
       IN  /\ files' = r.files
           /\ accessLogs' = r.logs
           /\ accessAttempts' = r.map
           /\ last' = [kind |-> "secureGET", fileId |-> fileId, token |-> token,
                       action |-> action, ipAddress |-> ipAddress,
                       userAgent |-> userAgent, sessionToken |-> sessionToken,
                       at |-> now, limited |-> r.resp.status = 429,
                       resp |-> r.resp]
    /\ UNCHANGED callers
    /\ UNCHANGED <<now, nticks, tok, sessions, logStoreOk>>

\* GET /api/files/{token}; sessionToken is the session the requester holds,
\* which the handler does not read
LegacyGet(token, infoOnly, sessionToken) ==
    /\ nreq < MaxRequests
    /\ nreq' = nreq + 1
    /\ LET r == legacyGET(files, token, infoOnly, now)
       IN  /\ files' = r.files
           /\ last' = [kind |-> "legacyGET", token |-> token, infoOnly |-> infoOnly,
                       sessionToken |-> sessionToken, at |-> now, resp |-> r.resp]
    /\ UNCHANGED callers
    /\ UNCHANGED <<now, nticks, tok, sessions, accessAttempts, accessLogs,
                   logStoreOk>>

\* POST /api/files/generate-url; the clock advances by d ms inside
\* generateSignedUrl
PostGenerateUrl(body, sessionToken, ipAddress, userAgent, d) ==
    /\ nreq < MaxRequests
    /\ nreq' = nreq + 1
    /\ d > 0 => nticks < MaxTicks
    /\ LET r == postGenerateUrl(files, sessions, accessAttempts, accessLogs,
                                logStoreOk, body, sessionToken, ipAddress,
                                userAgent, now, now + d)
           minted == r.resp.status = 200
       IN  /\ accessAttempts' = r.map
           /\ accessLogs' = r.logs
           /\ tok' = IF minted THEN Some(r.resp.url[1].token) ELSE tok
           /\ now' = IF minted THEN now + d ELSE now
           /\ nticks' = IF minted /\ d > 0 THEN nticks + 1 ELSE nticks
           /\ last' = [kind |-> "POST generate-url", body |-> body,
                       sessionToken |-> sessionToken, at |-> now, resp |-> r.resp]
    /\ UNCHANGED callers
    /\ UNCHANGED <<files, sessions, logStoreOk>>

\* PUT /api/files/generate-url; the token in flight afterwards is the last
\* one the batch minted
PutGenerateUrls(body, sessionToken, ipAddress, userAgent, d) ==
    /\ nreq < MaxRequests
    /\ nreq' = nreq + 1
    /\ d > 0 => nticks < MaxTicks
    /\ LET r == putGenerateUrls(files, sessions, accessAttempts, accessLogs,
                                logStoreOk, body, sessionToken, ipAddress,
                                userAgent, now, now + d)
           ok == {i \in DOMAIN r.resp.results : r.resp.results[i].success}
           minted == ok # {}
           newest == CHOOSE i \in ok : \A j \in ok : j <= i
       IN  /\ accessAttempts' = r.map
           /\ accessLogs' = r.logs
           /\ tok' = IF minted THEN Some(r.resp.results[newest].url[1].token) ELSE tok
           /\ now' = IF minted THEN now + d ELSE now
           /\ nticks' = IF minted /\ d > 0 THEN nticks + 1 ELSE nticks
           /\ last' = [kind |-> "PUT generate-url", body |-> body,
                       sessionToken |-> sessionToken, at |-> now, resp |-> r.resp]
    /\ UNCHANGED callers
    /\ UNCHANGED <<files, sessions, logStoreOk>>

\* ------------------------------------------------- the endpoint specification
Init ==
    /\ now = 0
    /\ nticks = 0
    /\ nreq = 0
    /\ tok = Undefined
    /\ InitFiles
    /\ sessions = InitSessions
    /\ accessAttempts = NoAttempts
    /\ accessLogs = <<>>
    /\ logStoreOk = FALSE
    /\ callers = NoCallers
    /\ last = NoResult

SessionTokens == {"", "s0", "s1", "s2"}
AccessTokens == {"a1", "a2", "a3"}
Bodies ==
    [fileId : FileIds, expiresIn : {Undefined}, action : {Undefined, Some("info")},
     restrictToIP : {FALSE}, restrictToUserAgent : {FALSE}]

\* the batch the endpoint specification asks for
Batch ==
    [fileIds |-> <<"f1", "f2", "f3">>, expiresIn |-> Undefined,
     action |-> Undefined, restrictToIP |-> FALSE, restrictToUserAgent |-> FALSE]

Next ==
    \/ Tick(500000)
    \/ \E f \in FileIds, st \in SessionTokens :
          CallCheckFileAccess(f, st, "ip1", "ua1")
    \/ \E b \in Bodies, st \in {"", "s1", "s2"} :
          PostGenerateUrl(b, st, "ip1", "ua1", 0)
    \/ \E f \in {"f1", "f2"}, t \in {Undefined, tok},
          a \in {"download", "info"}, st \in {"", "s1"} :
          SecureGet(f, t, a, "ip1", "ua1", st)
    \/ \E t \in AccessTokens, info \in BOOLEAN, st \in {"", "s1"} :
          LegacyGet(t, info, st)
    \/ \E st \in {"s1", "s2"} : PutGenerateUrls(Batch, st, "ip1", "ua1", 0)

Spec == Init /\ [][Next]_vars

\* ------------------------------------------------- the issuance specification
IssueLifetimes == {Undefined, Some(0 - 60), Some(100000)}
IssueBodies ==
    [fileId : {"f1", "f3"}, expiresIn : IssueLifetimes, action : {Undefined},
     restrictToIP : {FALSE}, restrictToUserAgent : {FALSE}]
BatchBodies ==
    [fileIds : {<<>>, <<"f1", "f2", "f3">>},
     expiresIn : IssueLifetimes, action : {Undefined},
     restrictToIP : {FALSE}, restrictToUserAgent : {FALSE}]

NextIssue ==
    \/ \E d \in {500, 900000} : Tick(d)
    \/ \E b \in IssueBodies, st \in {"", "s1"}, d \in {0, 500} :
          PostGenerateUrl(b, st, "ip1", "ua1", d)
    \/ \E b \in BatchBodies, st \in {"", "s1"} :
          PutGenerateUrls(b, st, "ip1", "ua1", 0)

SpecIssue == Init /\ [][NextIssue]_vars

\* ---------------------------------------------------- the audit specification
\* a call of logFileAccess(logData)
CallLogFileAccess(entry) ==
    /\ nreq < MaxRequests
    /\ nreq' = nreq + 1
    /\ LET r == logFileAccess(accessLogs, logStoreOk, entry)
       IN  /\ accessLogs' = r.logs
           /\ last' = [kind |-> "logFileAccess", entry |-> entry, at |-> now,
                       threw |-> r.threw]
    /\ UNCHANGED callers
    /\ UNCHANGED <<now, nticks, tok, files, sessions, accessAttempts, logStoreOk>>

\* a call of generateSecureDownloadUrl(fileId, sessionToken, options)
CallGenerateSecureDownloadUrl(fileId, sessionToken, options) ==
    /\ nreq < MaxRequests
    /\ nreq' = nreq + 1
    /\ LET r == generateSecureDownloadUrl(files, sessions, accessLogs, logStoreOk,
                                          fileId, sessionToken, options, now, now)
       IN  /\ accessLogs' = r.logs
           /\ tok' = IF r.success THEN Some(r.url[1].token) ELSE tok
           /\ last' = [kind |-> "generateSecureDownloadUrl", fileId |-> fileId,
                       sessionToken |-> sessionToken, options |-> options,
                       at |-> now,
                       result |-> [success |-> r.success, url |-> r.url,
                                   error |-> r.error]]
    /\ UNCHANGED callers
    /\ UNCHANGED <<now, nticks, files, sessions, accessAttempts, logStoreOk>>

\* the values crypto.randomBytes(32).toString('hex') takes
HexTokens == {"h1", "h2"}

\* a call of revokeFileAccess(fileId, userId)
CallRevokeFileAccess(fileId, userId, newAccessToken) ==
    /\ nreq < MaxRequests
    /\ nreq' = nreq + 1
    /\ LET r == revokeFileAccess(files, accessLogs, logStoreOk, fileId, userId,
                                 newAccessToken, now)
       IN  /\ files' = r.files
           /\ accessLogs' = r.logs
           /\ last' = [kind |-> "revokeFileAccess", fileId |-> fileId,
                       userId |-> userId, at |-> now,
                       oldAccessToken |-> IF files[fileId] = Undefined THEN Undefined
                                          ELSE Some(files[fileId][1].access_token),
                       newAccessToken |-> newAccessToken,
                       result |-> [success |-> r.success,
                                   newAccessToken |-> r.newAccessToken,
                                   error |-> r.error]]
    /\ UNCHANGED callers
    /\ UNCHANGED <<now, nticks, tok, sessions, accessAttempts, logStoreOk>>

\* the log store either is the one class Database has (none: every write
\* throws) or the one the specification describes
InitAudit ==
    /\ now = 0
    /\ nticks = 0
    /\ nreq = 0
    /\ tok = Undefined
    /\ InitFiles
    /\ sessions = InitSessions
    /\ accessAttempts = NoAttempts
    /\ accessLogs = <<>>
    /\ logStoreOk \in BOOLEAN
    /\ callers = NoCallers
    /\ last = NoResult

AuditOptions ==
    [expiresIn |-> Undefined, action |-> Undefined, ipAddress |-> "ip1",
     userAgent |-> ""]

NextAudit ==
    \/ Tick(900000)
    \/ \E f \in FileIds, st \in {"", "s0", "s1", "s2"} :
          CallCheckFileAccess(f, st, "ip1", "ua1")
    \/ \E f \in {"f1", "f3"}, st \in {"", "s0", "s1", "s2"} :
          CallGenerateSecureDownloadUrl(f, st, AuditOptions)
    \/ \E f \in {"f1", "f3"}, u \in Users, h \in HexTokens :
          CallRevokeFileAccess(f, u, h)
    \/ \E f \in {"f1"}, t \in {Undefined, tok}, a \in {"download", "info"} :
          SecureGet(f, t, a, "ip1", "ua1", "")
    \/ CallLogFileAccess(logEntry("f1", Undefined, "ip1", "ua1", "secure_access",
                                  FALSE, "Missing file ID or token", now))

SpecAudit == InitAudit /\ [][NextAudit]_vars

\* ------------------------------------------------ the revocation specification
NextRevoke ==
    \/ Tick(500000)
    \/ \E st \in {"s1", "s2"} : CallGenerateSecureDownloadUrl("f1", st, AuditOptions)
    \/ \E f \in FileIds, u \in Users, h \in HexTokens : CallRevokeFileAccess(f, u, h)
    \/ \E t \in AccessTokens \cup HexTokens, info \in BOOLEAN : LegacyGet(t, info, "")
    \/ \E a \in {"download", "info"} : CallVerifySignedUrl("f1", a, "ip1", "ua1")

SpecRevoke == Init /\ [][NextRevoke]_vars

\* ------------------------------------------- the anomaly-scan specification
\* The log holds the rows that earlier requests have written; the scan reads
\* the rows of one file inside its time window.
IpPool ==
    <<"10.0.0.1", "10.0.0.2", "10.0.0.3", "10.0.0.4", "10.0.0.5",
      "10.0.0.6", "10.0.0.7", "10.0.0.8", "10.0.0.9", "10.0.0.10",
      "10.0.0.11", "10.0.0.12", "10.0.0.13", "10.0.0.14", "10.0.0.15",
      "10.0.0.16", "10.0.0.17", "10.0.0.18", "10.0.0.19", "10.0.0.20",
      "10.0.0.21", "10.0.0.22">>

\* total rows of f1 written half an hour before the start of the run, the
\* first failed of them failures, over addresses cycling addresses of the pool;
\* the first row carries firstIp
recentRows(total, failed, addresses, firstIp) ==
    [i \in 1 .. total |->
        logEntry("f1", Undefined,
                 IF i = 1 THEN firstIp ELSE IpPool[((i - 1) % addresses) + 1],
                 "ua1", "secure_access", i > failed,
                 IF i > failed THEN "" ELSE "Invalid token",
                 DetectStart - 30 * 60 * 1000)]

\* failed rows of f1 written two hours before the start of the run, and
\* failed rows of f2
otherRows(each) ==
    [i \in 1 .. 2 * each |->
        IF i <= each
        THEN logEntry("f1", Undefined, IpPool[22], "ua1", "secure_access", FALSE,
                      "Invalid token", 0)
        ELSE logEntry("f2", Undefined, IpPool[22], "ua1", "secure_access", FALSE,
                      "Invalid token", DetectStart - 30 * 60 * 1000)]

InitDetect ==
    /\ now = DetectStart
    /\ nticks = 0
    /\ nreq = 0
    /\ tok = Undefined
    /\ InitFiles
    /\ sessions = InitSessions
    /\ accessAttempts = NoAttempts
    /\ logStoreOk \in BOOLEAN
    /\ \E total \in {0, 1, 11, 21, 22, 101}, failed \in {0, 1, 6, 21},
          addresses \in {1, 20, 21}, firstIp \in {"", "unknown", IpPool[1]},
          each \in {0, 11} :
          /\ failed <= total
          /\ addresses <= Max(total, 1)
          /\ accessLogs = IF logStoreOk
                          THEN recentRows(total, failed, addresses, firstIp)
                                   \o otherRows(each)
                          ELSE <<>>
    /\ callers = NoCallers
    /\ last = NoResult

\* a call of detectSuspiciousActivity(fileId, timeWindowHours)
CallDetectSuspiciousActivity(fileId, timeWindowHours) ==
    /\ nreq < MaxRequests
    /\ nreq' = nreq + 1
    /\ last' = [kind |-> "detectSuspiciousActivity", fileId |-> fileId,
                timeWindowHours |-> timeWindowHours, at |-> now,
                result |-> detectSuspiciousActivity(accessLogs, logStoreOk, fileId,
                                                    timeWindowHours, now)]
    /\ UNCHANGED callers
    /\ UNCHANGED <<now, nticks, tok, files, sessions, accessAttempts, accessLogs,
                   logStoreOk>>

NextDetect ==
    \/ Tick(45 * 60 * 1000)
    \/ \E f \in {"f1", "f2"}, h \in {1, 24} : CallDetectSuspiciousActivity(f, h)
    \/ CallLogFileAccess(logEntry("f1", Undefined, "unknown", "ua1", "secure_access",
                                  FALSE, "Invalid token", now))

SpecDetect == InitDetect /\ [][NextDetect]_vars

\* -------------------------------------------- the access-log specification
\* Owners query the log of their files and delete files, next to the requests
\* that write the log.
\* rows that earlier requests from four client addresses have written
InitRows ==
    <<logEntry("f1", Undefined, "ip1", "ua1", "secure_access", TRUE, "", 0),
      logEntry("f2", Undefined, "ip2", "ua1", "secure_access", FALSE,
               "Invalid token", 0),
      logEntry("f1", Some("u1"), "ip3", "ua1", "access_check", TRUE, "", 0),
      logEntry("f2", Undefined, "unknown", "", "secure_access", FALSE,
               "Invalid token", 0)>>

InitLogs ==
    /\ now = 0
    /\ nticks = 0
    /\ nreq = 0
    /\ tok = Undefined
    /\ InitFiles
    /\ sessions = InitSessions
    /\ accessAttempts = NoAttempts
    /\ logStoreOk \in BOOLEAN
    /\ accessLogs = IF logStoreOk THEN InitRows ELSE <<>>
    /\ callers = NoCallers
    /\ last = NoResult

\* GET /api/files/access-logs
GetAccessLogs(query, sessionToken) ==
    /\ nreq < MaxRequests
    /\ nreq' = nreq + 1
    /\ LET r == getAccessLogs(files, sessions, accessLogs, logStoreOk, query,
                              sessionToken, now)
       IN  last' = [kind |-> "GET access-logs", query |-> query,
                    sessionToken |-> sessionToken, at |-> now, resp |-> r.resp,
                    rows |-> r.rows]
    /\ UNCHANGED callers
    /\ UNCHANGED <<now, nticks, tok, files, sessions, accessAttempts, accessLogs,
                   logStoreOk>>

\* a DELETE request of the file-deletion route
DeleteFile(body, sessionToken, ipAddress, userAgent, unlinkOk) ==
    /\ nreq < MaxRequests
    /\ nreq' = nreq + 1
    /\ LET r == deleteDELETE(files, sessions, accessAttempts, accessLogs,
                             logStoreOk, body, sessionToken, ipAddress, userAgent,
                             unlinkOk, now)
       IN  /\ files' = r.files
           /\ accessAttempts' = r.map
           /\ accessLogs' = r.logs
           /\ last' = [kind |-> "DELETE file", body |-> body,
                       sessionToken |-> sessionToken, at |-> now, resp |-> r.resp]
    /\ UNCHANGED callers
    /\ UNCHANGED <<now, nticks, tok, sessions, logStoreOk>>

\* a batch POST request of the file-deletion route
PostDeleteFiles(body, sessionToken, ipAddress, userAgent, unlinkOk) ==
    /\ nreq < MaxRequests
    /\ nreq' = nreq + 1
    /\ LET r == deletePOST(files, sessions, accessAttempts, accessLogs,
                           logStoreOk, body, sessionToken, ipAddress, userAgent,
                           unlinkOk, now)
       IN  /\ files' = r.files
           /\ accessAttempts' = r.map
           /\ accessLogs' = r.logs
           /\ last' = [kind |-> "POST delete files", body |-> body,
                       sessionToken |-> sessionToken, at |-> now, resp |-> r.resp]
    /\ UNCHANGED callers
    /\ UNCHANGED <<now, nticks, tok, sessions, logStoreOk>>

\* the fileIds arrays of the batch requests of the model
BatchDeletes == {<<>>, <<"f1">>, <<"f1", "f2">>, <<"f3", "f2", "f1">>}

LogQueries ==
    [fileId : {"", "f1", "f2", "f3"}, timeRange : {"1h", "24h"}, limit : {50},
     offset : {0}]

NextLogs ==
    \/ Tick(2 * 60 * 60 * 1000)
    \/ \E f \in {"f1", "f2"}, st \in {"s1", "s2"}, ip \in {"ip1", "ip2"} :
          CallCheckFileAccess(f, st, ip, "ua1")
    \/ \E q \in LogQueries, st \in {"", "s1", "s2"} : GetAccessLogs(q, st)
    \/ \E f \in FileIds, st \in {"", "s1", "s2"}, ok \in BOOLEAN :
          DeleteFile([fileId |-> f], st, "ip1", "ua1", ok)
    \/ \E ids \in BatchDeletes, st \in {"", "s1", "s2"}, ok \in BOOLEAN :
          PostDeleteFiles([fileIds |-> ids], st, "ip1", "ua1", ok)
    \/ \E b \in Bodies, st \in {"s1", "s2"} : PostGenerateUrl(b, st, "ip1", "ua1", 0)

SpecLogs == InitLogs /\ [][NextLogs]_vars

\* ---------------------------------------------- the rate-limit specification
\* Requests that share one rate-limit key run as async handlers on one event
\* loop: a handler is entered and later, between two awaits, calls the synchronous
\* checkRateLimit; the handlers in flight interleave at their awaits.
Procs == 1 .. MaxCallers
RateKey == <<"file_access", "ip1">>
RateWindowMinutes == 1
RateWindowMs == RateWindowMinutes * 60 * 1000
NoRate == [allowed |-> FALSE, remaining |-> 0, resetTime |-> 0]
idleCaller ==
    [pc |-> "idle", identifier |-> RateKey, maxAttempts |-> 0, seq |-> 0,
     at |-> 0, fresh |-> FALSE, result |-> NoRate]

InitRate ==
    /\ now = 0
    /\ nticks = 0
    /\ nreq = 0
    /\ tok = Undefined
    /\ files = [f \in FileIds |-> NoFile]
    /\ sessions = InitSessions
    /\ accessAttempts = NoAttempts
    /\ accessLogs = <<>>
    /\ logStoreOk = FALSE
    /\ callers = [p \in Procs |-> idleCaller]
    /\ last = NoResult

\* request p arrives (the requests arrive in the order of their numbers);
\* every request of a behaviour passes the same maxAttempts
Enter(p, maxAttempts) ==
    /\ callers[p].pc = "idle"
    /\ p > 1 => callers[p - 1].pc # "idle"
    /\ \A q \in Procs : callers[q].pc # "idle" => callers[q].maxAttempts = maxAttempts
    /\ callers' = [callers EXCEPT ![p] = [@ EXCEPT !.pc = "entered",
                                                   !.maxAttempts = maxAttempts]]
    /\ UNCHANGED <<now, nticks, nreq, tok, files, sessions, accessAttempts,
                   accessLogs, logStoreOk, last>>

\* request p calls checkRateLimit(identifier, maxAttempts, RateWindowMinutes);
\* fresh records that the map held no entry of the identifier
Limit(p) ==
    /\ callers[p].pc = "entered"
    /\ LET r == checkRateLimit(accessAttempts, callers[p].identifier,
                               callers[p].maxAttempts, RateWindowMinutes, now)
       IN  /\ accessAttempts' = r.map
           /\ callers' = [callers EXCEPT ![p] =
                             [@ EXCEPT !.pc = "limited", !.seq = nreq + 1,
                                       !.at = now,
                                       !.fresh = callers[p].identifier
                                                    \notin DOMAIN accessAttempts,
                                       !.result = [allowed |-> r.allowed,
                                                   remaining |-> r.remaining,
                                                   resetTime |-> r.resetTime]]]
    /\ nreq' = nreq + 1
    /\ last' = [kind |-> "checkRateLimit", caller |-> p]
    /\ UNCHANGED <<now, nticks, tok, files, sessions, accessLogs, logStoreOk>>

NextRate ==
    \/ \E d \in {RateWindowMs \div 2, RateWindowMs} : Tick(d)
    \/ \E p \in Procs, n \in {1, 2} : Enter(p, n)
    \/ \E p \in Procs : Limit(p)

SpecRate == InitRate /\ [][NextRate]_vars

\* ------------------------------------------- the rate-limit keys specification
\* The endpoints call checkRateLimit with a key made of their purpose and the
\* client address, one request after the other, and the hourly timer calls
\* cleanupRateLimitData between any two of them.
RateKeys ==
    {<<"file_access", "ip1">>, <<"url_generation", "ip1">>, <<"file_access", "ip2">>}

\* request p arrives with its key once the request before it has been limited;
\* every request of a behaviour passes the same maxAttempts
EnterAs(p, identifier, maxAttempts) ==
    /\ callers[p].pc = "idle"
    /\ p > 1 => callers[p - 1].pc = "limited"
    /\ \A q \in Procs : callers[q].pc # "idle" => callers[q].maxAttempts = maxAttempts
    /\ callers' = [callers EXCEPT ![p] = [@ EXCEPT !.pc = "entered",
                                                   !.identifier = identifier,
                                                   !.maxAttempts = maxAttempts]]
    /\ UNCHANGED <<now, nticks, nreq, tok, files, sessions, accessAttempts,
                   accessLogs, logStoreOk, last>>

\* the interval timer fires
Cleanup ==
    /\ accessAttempts' = cleanupRateLimitData(accessAttempts, now)
    /\ last' = [kind |-> "cleanupRateLimitData"]
    /\ UNCHANGED <<now, nticks, nreq, tok, files, sessions, accessLogs,
                   logStoreOk, callers>>

NextKeys ==
    \/ \E d \in {RateWindowMs \div 2, RateWindowMs} : Tick(d)
    \/ \E p \in Procs, id \in RateKeys, n \in {1, 2} : EnterAs(p, id, n)
    \/ \E p \in Procs : Limit(p)
    \/ Cleanup

SpecKeys == InitRate /\ [][NextKeys]_vars

\* ------------------------------------------------------- claims on the codec
IsMint == last.kind = "generateSignedUrl"
IsVerify == last.kind = "verifySignedUrl"
\* the presented token is the one the server minted
Genuine == IsVerify /\ last.token = last.minted
Unexpired == nowSeconds(last.at) < last.token.payload.exp
PairMatches ==
    /\ last.fileId = last.token.payload.fileId
    /\ last.action = last.token.payload.action
IpBound == last.token.payload.ip # Undefined
UaBound == last.token.payload.ua # Undefined

\* C3: a minted token, verified before its expiry with the fileId, the action
\* and the IP / user agent it was bound to, is valid and the payload returned
\* is the minted one (fileId, userId, action, iat, exp)
C3_RoundTrip ==
    (/\ Genuine /\ Unexpired /\ PairMatches
     /\ IpBound => last.token.payload.ip = sha256(last.ipAddress)
     /\ UaBound => last.token.payload.ua = sha256(last.userAgent))
    => /\ last.result.valid
       /\ last.result.payload = Some(tok[1].payload)
       /\ last.result.payload[1].fileId = last.fileId
       /\ last.result.payload[1].action = last.action

C3_Witness ==
    /\ Genuine /\ Unexpired /\ PairMatches /\ IpBound /\ UaBound
    /\ last.ipAddress = "ip1" /\ last.userAgent = "ua1"
    /\ last.at > 0
    /\ last.result.valid

\* C4: a correctly signed token verified after its exp fails with 'Signed URL
\* has expired', whatever fileId, action, IP and user agent are supplied
C4_ExpiredWins ==
    (/\ IsVerify
     /\ last.token.sig = HS256(last.token.payload, SIGNED_URL_SECRET)
     /\ nowSeconds(last.at) > last.token.payload.exp)
    => /\ ~last.result.valid
       /\ last.result.error = "Signed URL has expired"

C4_Witness ==
    /\ Genuine
    /\ nowSeconds(last.at) > last.token.payload.exp
    /\ last.fileId # last.token.payload.fileId
    /\ last.action # last.token.payload.action
    /\ IpBound /\ last.ipAddress = "ip2"
    /\ last.result.error = "Signed URL has expired"

\* C5: a token that differs from the minted one in a claim field or in its
\* signature is rejected with 'Invalid signed URL'; valid = true is obtained
\* only with a token the server minted
C5_TamperRejected ==
    IsVerify =>
        /\ last.token # last.minted =>
              /\ ~last.result.valid
              /\ last.result.error = "Invalid signed URL"
        /\ last.result.valid => last.token = tok[1]

C5_Witness ==
    /\ IsVerify
    /\ last.token.sig = last.minted.sig
    /\ last.token.payload # last.minted.payload
    /\ last.token.payload.exp > last.minted.payload.exp
    /\ nowSeconds(last.at) >= last.minted.payload.exp
    /\ last.result.error = "Invalid signed URL"

\* C6: a token is accepted only for the (fileId, action) pair it was minted
\* for; an unexpired minted token presented with another fileId fails with
\* 'File ID mismatch', with its fileId and another action with 'Action mismatch'
C6_PairBinding ==
    IsVerify =>
        /\ last.result.valid => PairMatches
        /\ (Genuine /\ Unexpired /\ last.fileId # last.token.payload.fileId)
              => last.result.error = "File ID mismatch"
        /\ (/\ Genuine /\ Unexpired
            /\ last.fileId = last.token.payload.fileId
            /\ last.action # last.token.payload.action)
              => last.result.error = "Action mismatch"

C6_Witness ==
    /\ Genuine /\ Unexpired
    /\ last.fileId = last.token.payload.fileId
    /\ last.action # last.token.payload.action
    /\ last.result.error = "Action mismatch"

\* C7: a binding is enforced only when the claim carries it: a token minted
\* without a binding verifies from any IP and user agent; a token minted with
\* the IP (user-agent) binding fails with 'IP address mismatch' ('User agent
\* mismatch') when another IP (user agent) is supplied
C7_OptionalBinding ==
    (Genuine /\ Unexpired /\ PairMatches) =>
        /\ (~IpBound /\ ~UaBound) => last.result.valid
        /\ ~IpBound => last.result.error # "IP address mismatch"
        /\ ~UaBound => last.result.error # "User agent mismatch"
        /\ (/\ IpBound /\ last.ipAddress # ""
            /\ sha256(last.ipAddress) # last.token.payload.ip)
              => last.result.error = "IP address mismatch"
        /\ (/\ UaBound /\ last.userAgent # ""
            /\ sha256(last.userAgent) # last.token.payload.ua
            /\ (IpBound /\ last.ipAddress # "")
                  => sha256(last.ipAddress) = last.token.payload.ip)
              => last.result.error = "User agent mismatch"

C7_Witness ==
    /\ Genuine /\ Unexpired /\ PairMatches
    /\ ~IpBound /\ UaBound
    /\ last.ipAddress = "ip2" /\ last.userAgent = "ua2"
    /\ last.result.error = "User agent mismatch"

\* C8: every minted token has exp - iat <= 86400, and exp - iat = 900 when no
\* lifetime was requested
C8_LifetimeBound ==
    IsMint =>
        /\ last.url.token.payload.exp - last.url.token.payload.iat <= MAX_URL_EXPIRY
        /\ last.options.expiresIn = Undefined =>
              last.url.token.payload.exp - last.url.token.payload.iat
                  = DEFAULT_URL_EXPIRY

\* -------------------------------------------------- claims on the issuance
IsPost == last.kind = "POST generate-url"
IsPut == last.kind = "PUT generate-url"
NonPositive(expiresIn) == expiresIn # Undefined /\ expiresIn[1] <= 0
DefaultLifetime(token) == token.payload.exp = token.payload.iat + DEFAULT_URL_EXPIRY

\* C9: a requested lifetime <= 0 yields the default lifetime, exp = iat + 900,
\* when minting directly, through single issuance and through batch issuance
C9_NonPositiveLifetime ==
    /\ (IsMint /\ NonPositive(last.options.expiresIn))
          => DefaultLifetime(last.url.token)
    /\ (IsPost /\ last.resp.status = 200 /\ NonPositive(last.body.expiresIn))
          => DefaultLifetime(last.resp.url[1].token)
    /\ (IsPut /\ last.resp.status = 200 /\ NonPositive(last.body.expiresIn))
          => \A i \in DOMAIN last.resp.results :
                last.resp.results[i].success
                   => DefaultLifetime(last.resp.results[i].url[1].token)

\* ------------------------------------------------ claims on the endpoints
IsSecureGet == last.kind = "secureGET"
IsLegacyGet == last.kind = "legacyGET"
IsCheck == last.kind = "checkFileAccess"
\* the response carries the content or the metadata of a file
Served == last.resp.status = 200 /\ last.resp.served # Undefined
\* the requester is the authenticated user u
RequesterIs(u) == verifySession(sessions, last.sessionToken) = Some([id |-> u])

\* C1: on every retrieval path the content or the metadata of a private file
\* is returned only to the authenticated user who owns the file
C1_PrivateOnlyToOwner ==
    ((IsSecureGet \/ IsLegacyGet) /\ Served
        /\ ~files[last.resp.served[1]][1].is_public)
    => RequesterIs(files[last.resp.served[1]][1].user_id)

\* C2: an unexpired token minted for (F, A, U), presented to the secure
\* endpoint for F with A while the rate limit is not exhausted, is answered
\* with the metadata (info) or the content (download, view) of F when F exists,
\* is unexpired and is public or owned by U
C2_SecureServesByFileId ==
    (/\ IsSecureGet
     /\ last.token # Undefined
     /\ last.token[1].sig = HS256(last.token[1].payload, SIGNED_URL_SECRET)
     /\ nowSeconds(last.at) < last.token[1].payload.exp
     /\ last.token[1].payload.fileId = last.fileId
     /\ last.token[1].payload.action = last.action
     /\ ~last.limited
     /\ files[last.fileId] # Undefined
     /\ ~fileExpired(files[last.fileId][1], last.at)
     /\ files[last.fileId][1].on_disk
     /\ \/ files[last.fileId][1].is_public
        \/ files[last.fileId][1].user_id = last.token[1].payload.userId)
    => /\ last.resp.status = 200
       /\ last.resp.served = Some(last.fileId)
       /\ last.resp.body = IF last.action = "info" THEN "metadata" ELSE "content"

\* C10: checkFileAccess on an existing, unexpired public file returns
\* canAccess = true with isOwner = false, whether the session token is absent,
\* invalid, a non-owner's or the owner's
C10_PublicAllowed ==
    (/\ IsCheck
     /\ files[last.fileId] # Undefined
     /\ files[last.fileId][1].is_public
     /\ ~fileExpired(files[last.fileId][1], last.at))
    => /\ last.result.canAccess
       /\ last.result.isOwner = Some(FALSE)
       /\ last.result.reason = ""

C10_Witness ==
    /\ IsCheck
    /\ files[last.fileId] # Undefined
    /\ files[last.fileId][1].is_public
    /\ files[last.fileId][1].expires_at # Undefined
    /\ last.at > 0
    /\ RequesterIs(files[last.fileId][1].user_id)
    /\ last.result.canAccess
    /\ last.result.isOwner = Some(FALSE)

\* -------------------------------------------- claims on the access decision
\* the file the last checkFileAccess was about exists, is private and is
\* unexpired
PrivateLive ==
    /\ IsCheck
    /\ files[last.fileId] # Undefined
    /\ ~files[last.fileId][1].is_public
    /\ ~fileExpired(files[last.fileId][1], last.at)
Requester == verifySession(sessions, last.sessionToken)

\* C11: on an existing, unexpired private file checkFileAccess denies with
\* 'authentication required' and requiresAuth when no session token is given,
\* denies with 'invalid session' and requiresAuth when the token resolves to
\* no user, denies as 'not owner' without requiresAuth when it resolves to
\* another user, and allows with isOwner = true when it resolves to the owner
C11_PrivateDecision ==
    PrivateLive =>
        last.result =
            IF last.sessionToken = ""
            THEN accessDecision(FALSE, "Authentication required for private file",
                                Some(TRUE), Undefined)
            ELSE IF Requester = Undefined
            THEN accessDecision(FALSE, "Invalid or expired session", Some(TRUE),
                                Undefined)
            ELSE IF Requester[1].id # files[last.fileId][1].user_id
            THEN accessDecision(FALSE,
                     "Access denied - you are not the owner of this file",
                     Undefined, Undefined)
            ELSE accessDecision(TRUE, "", Undefined, Some(TRUE))

C11_Witness ==
    /\ PrivateLive
    /\ Requester # Undefined
    /\ Requester[1].id # files[last.fileId][1].user_id
    /\ ~last.result.canAccess
    /\ last.result.requiresAuth = Undefined

\* the file f exists and its expiry instant is before t
ExpiredAt(f, t) == files[f] # Undefined /\ fileExpired(files[f][1], t)

\* no operation grants or serves a file that has expired when it is asked
C12_ExpiredDenied ==
    /\ (IsCheck /\ ExpiredAt(last.fileId, last.at))
          => /\ ~last.result.canAccess
             /\ last.result.reason = "File has expired"
    /\ (IsPost /\ last.body.fileId \in FileIds /\ ExpiredAt(last.body.fileId, last.at))
          => /\ last.resp.status # 200
             /\ last.resp.url = Undefined
    /\ IsPut
          => \A i \in DOMAIN last.resp.results :
                ExpiredAt(last.resp.results[i].fileId, last.at)
                   => /\ ~last.resp.results[i].success
                      /\ last.resp.results[i].url = Undefined
    /\ ((IsSecureGet \/ IsLegacyGet) /\ Served)
          => ~ExpiredAt(last.resp.served[1], last.at)

\* an expired file stays expired or is deleted
C12_StaysExpired ==
    \A f \in FileIds :
        ExpiredAt(f, now) => (files'[f] = Undefined \/ fileExpired(files'[f][1], now'))

\* C12: a file whose expiresAt is in the past is never granted or served,
\* whatever its visibility and whoever asks: checkFileAccess denies it as
\* expired, POST and PUT issuance mint no token for it, the secure and the
\* legacy endpoint return neither its content nor its metadata, and no
\* operation makes it accessible again
C12_ExpiredNeverServed == []C12_ExpiredDenied /\ [][C12_StaysExpired]_vars

C12_Witness ==
    /\ IsCheck
    /\ ExpiredAt(last.fileId, last.at)
    /\ RequesterIs(files[last.fileId][1].user_id)
    /\ ~last.result.canAccess

\* ------------------------------------------------- claims on the audit log
IsLog == last.kind = "logFileAccess"
IsIssue == last.kind = "generateSecureDownloadUrl"
IsRevoke == last.kind = "revokeFileAccess"
\* the step is an operation of the audit specification
Operation == nreq' = nreq + 1
decisionOf(r) == accessDecision(r.canAccess, r.reason, r.requiresAuth, r.isOwner)

\* C13: every branch of checkFileAccess (file not found, file expired, public
\* allow, authentication required, invalid session, not owner, owner allow)
\* appends exactly one access-log entry, which carries the outcome of the
\* branch and, for a denial, the error reason
C13_OneEntryPerBranch ==
    IsCheck =>
        /\ last.logged = 1
        /\ accessLogs[Len(accessLogs)].file_id = last.fileId
        /\ accessLogs[Len(accessLogs)].success = last.result.canAccess
        /\ ~last.result.canAccess => accessLogs[Len(accessLogs)].error_message # ""

\* the operation of the step answers what it would have answered with the
\* log store in the other condition, and no logFileAccess threw
C14_Step ==
    Operation =>
        /\ IsLog' => ~last'.threw
        /\ IsCheck' =>
              /\ ~last'.threw
              /\ last'.result =
                    decisionOf(checkFileAccess(files, sessions, accessLogs,
                         ~logStoreOk, last'.fileId, last'.sessionToken,
                         last'.ipAddress, last'.userAgent, now))
        /\ IsIssue' =>
              LET other == generateSecureDownloadUrl(files, sessions, accessLogs,
                               ~logStoreOk, last'.fileId, last'.sessionToken,
                               last'.options, now, now)
              IN  last'.result = [success |-> other.success, url |-> other.url,
                                  error |-> other.error]
        /\ IsRevoke' =>
              LET other == revokeFileAccess(files, accessLogs, ~logStoreOk,
                               last'.fileId, last'.userId, last'.newAccessToken,
                               now)
              IN  /\ last'.result = [success |-> other.success,
                                     newAccessToken |-> other.newAccessToken,
                                     error |-> other.error]
                  /\ files' = other.files
        /\ IsSecureGet' =>
              LET other == secureGET(files, accessAttempts, accessLogs,
                               ~logStoreOk, last'.fileId, last'.token,
                               last'.action, last'.ipAddress, last'.userAgent, now)
              IN  /\ last'.resp = other.resp
                  /\ files' = other.files
                  /\ accessAttempts' = other.map

\* C14: a failure of the log store never changes the outcome of the operation
\* that logs: checkFileAccess, generateSecureDownloadUrl, revokeFileAccess and
\* the secure endpoint return the same result whether createFileAccessLog
\* succeeds or throws, and logFileAccess itself never throws
C14_LogFailureHarmless == [][C14_Step]_vars

C14_Witness ==
    /\ IsCheck
    /\ ~logStoreOk
    /\ last.result.canAccess
    /\ last.result.isOwner = Some(TRUE)
    /\ last.logged = 0
    /\ ~last.threw

\* a call of checkFileAccess changes no file, session or rate-limit entry,
\* and the same call on the state it leaves returns the same decision
C15_Step ==
    (Operation /\ IsCheck') =>
        /\ files' = files
        /\ sessions' = sessions
        /\ accessAttempts' = accessAttempts
        /\ last'.result =
              decisionOf(checkFileAccess(files', sessions', accessLogs',
                   logStoreOk', last'.fileId, last'.sessionToken,
                   last'.ipAddress, last'.userAgent, now'))

\* C15: checkFileAccess leaves every file record (owner, visibility, expiry,
\* access token, download count), every session and the rate-limit map
\* unchanged on every branch, and calling it twice with the same arguments on
\* unchanged state returns the same decision
C15_CheckIsReadOnly == [][C15_Step]_vars

C15_Witness ==
    /\ IsCheck
    /\ last.result.canAccess
    /\ last.result.isOwner = Some(FALSE)
    /\ RequesterIs("u2")
    /\ files[last.fileId][1].download_count = 0

\* ------------------------------------------------- claims on the revocation
\* the last operation is revokeFileAccess on an existing file, called by its
\* owner / by another user
RevokedByOwner ==
    /\ IsRevoke
    /\ files[last.fileId] # Undefined
    /\ files[last.fileId][1].user_id = last.userId
RevokedByOther ==
    /\ IsRevoke
    /\ files[last.fileId] # Undefined
    /\ files[last.fileId][1].user_id # last.userId

\* C16: revokeFileAccess called by a user who is not the owner of the file is
\* denied and leaves access_token unchanged; called by the owner it succeeds
\* and replaces access_token by a freshly generated value that differs from
\* the previous one
C16_RevokeByOwnerOnly ==
    /\ RevokedByOther =>
          /\ ~last.result.success
          /\ last.result.error = "Access denied - you are not the owner of this file"
          /\ Some(files[last.fileId][1].access_token) = last.oldAccessToken
    /\ RevokedByOwner =>
          /\ last.result.success
          /\ last.result.newAccessToken = Some(files[last.fileId][1].access_token)
          /\ last.result.newAccessToken # last.oldAccessToken

\* C17: once the owner of F has revoked access to F (the call that succeeds,
\* C16), a legacy link carrying the old access token of F no longer resolves
\* to F, in info mode or in download mode, while the signed token issued for
\* F before the revocation is still accepted by verifySignedUrl until its own
\* expiry
C17_RevocationCutsLegacyLinks ==
    RevokedByOwner =>
        /\ legacyGET(files, last.oldAccessToken[1], TRUE, now).resp.served
              # Some(last.fileId)
        /\ legacyGET(files, last.oldAccessToken[1], FALSE, now).resp.served
              # Some(last.fileId)
        /\ (/\ tok # Undefined
            /\ tok[1].payload.fileId = last.fileId
            /\ nowSeconds(now) < tok[1].payload.exp)
              => verifySignedUrl(last.fileId, tok[1], tok[1].payload.action,
                                 "ip1", "ua1", now).valid

\* ----------------------------------------------- claims on the rate limiter
\* the requests that have called checkRateLimit, and the k-th of them
Called == {p \in Procs : callers # NoCallers /\ callers[p].pc = "limited"}
NthCaller(k) ==
    CHOOSE p \in Called :
        Cardinality({q \in Called : callers[q].seq <= callers[p].seq}) = k

\* the window the k-th call falls in and its index in that window, counted
\* from the times of the calls alone
RECURSIVE WindowOfCall(_)
WindowOfCall(k) ==
    IF k = 0
    THEN [resetTime |-> 0, index |-> 0]
    ELSE LET before == WindowOfCall(k - 1)
             t == callers[NthCaller(k)].at
         IN  IF k = 1 \/ t > before.resetTime
             THEN [resetTime |-> t + RateWindowMs, index |-> 1]
             ELSE [resetTime |-> before.resetTime, index |-> before.index + 1]

\* C18: for a fresh identifier and maxAttempts = N >= 1, of N+1 calls inside
\* one window the first N are allowed with remaining N-1, ..., 0 and call N+1
\* is denied with remaining 0; the first call after the window has elapsed is
\* allowed with remaining N-1 and resetTime = now + window
C18_WindowSequence ==
    \A k \in 1 .. Cardinality(Called) :
        LET w == WindowOfCall(k)
            c == callers[NthCaller(k)]
        IN  w.index <= c.maxAttempts + 1 =>
                c.result = [allowed |-> w.index <= c.maxAttempts,
                            remaining |-> IF w.index <= c.maxAttempts
                                          THEN c.maxAttempts - w.index ELSE 0,
                            resetTime |-> w.resetTime]

C18_Witness ==
    \E j, k \in 1 .. Cardinality(Called) :
        /\ j < k
        /\ WindowOfCall(j).index = callers[NthCaller(j)].maxAttempts + 1
        /\ ~callers[NthCaller(j)].result.allowed
        /\ WindowOfCall(k).index = 1
        /\ callers[NthCaller(k)].result.allowed

\* the calls answered allowed = true in the window that ends at resetTime
AllowedIn(resetTime) ==
    {p \in Called : callers[p].result.allowed /\ callers[p].result.resetTime = resetTime}

\* C19: under any interleaving of concurrent requests that call checkRateLimit
\* with the same identifier and the same maxAttempts >= 1, the calls answered
\* allowed = true within one window never exceed maxAttempts, and no increment
\* is lost: the stored count is the number of allowed calls of the window
C19_NoOvershoot ==
    /\ \A p \in Called :
          Cardinality(AllowedIn(callers[p].result.resetTime)) <= callers[p].maxAttempts
    /\ RateKey \in DOMAIN accessAttempts =>
          accessAttempts[RateKey].count =
              Cardinality(AllowedIn(accessAttempts[RateKey].resetTime))

\* request q entered before request p and called checkRateLimit while p was
\* in flight; p got the last slot of the window and q was refused
C19_Witness ==
    \E p, q \in Called :
        /\ q < p
        /\ callers[p].seq < callers[q].seq
        /\ callers[p].result.allowed
        /\ callers[p].result.remaining = 0
        /\ ~callers[q].result.allowed
        /\ callers[q].result.resetTime = callers[p].result.resetTime

\* request p calls checkRateLimit in this step
Limits(p) == callers[p].pc = "entered" /\ callers'[p].pc = "limited"

C20_Step ==
    \A p \in Procs :
        (/\ callers # NoCallers
         /\ Limits(p)
         /\ RateKey \in DOMAIN accessAttempts
         /\ now > accessAttempts[RateKey].resetTime)
        => /\ accessAttempts'[RateKey] = [count |-> 1, resetTime |-> now + RateWindowMs]
           /\ callers'[p].result = [allowed |-> TRUE,
                                    remaining |-> callers[p].maxAttempts - 1,
                                    resetTime |-> now + RateWindowMs]

\* C20: whenever checkRateLimit is called with now > the stored resetTime of
\* the identifier, the entry is replaced by {count: 1, resetTime: now + window}
\* and the call is allowed; the count of the elapsed window is neither read
\* for the decision nor carried into the new window
C20_StaleWindowReset == [][C20_Step]_vars

\* a call refused in an exhausted window, then a call allowed after it elapsed
C20_Witness ==
    \E p, q \in Called :
        /\ callers[q].seq < callers[p].seq
        /\ ~callers[q].result.allowed
        /\ callers[p].at > callers[q].result.resetTime
        /\ callers[p].result.allowed
        /\ accessAttempts[RateKey].count = 1

\* --------------------------------------------- claims on the rate-limit keys
\* the map after the first k calls when cleanupRateLimitData is never called
RECURSIVE MapWithoutCleanup(_)
MapWithoutCleanup(k) ==
    IF k = 0
    THEN NoAttempts
    ELSE LET c == callers[NthCaller(k)]
         IN  Bind(MapWithoutCleanup(k - 1),
                  LAMBDA m : checkRateLimit(m, c.identifier, c.maxAttempts,
                                            RateWindowMinutes, c.at).map)

\* the answer to the k-th call when cleanupRateLimitData is never called
AnswerWithoutCleanup(k) ==
    LET c == callers[NthCaller(k)]
    IN  Bind(MapWithoutCleanup(k - 1),
             LAMBDA m :
                 LET r == checkRateLimit(m, c.identifier, c.maxAttempts,
                                         RateWindowMinutes, c.at)
                 IN  [allowed |-> r.allowed, remaining |-> r.remaining,
                      resetTime |-> r.resetTime])

C21_SameAnswers ==
    \A k \in 1 .. Cardinality(Called) :
        callers[NthCaller(k)].result = AnswerWithoutCleanup(k)

C21_Step ==
    \A id \in DOMAIN accessAttempts :
        /\ id \notin DOMAIN accessAttempts' => now > accessAttempts[id].resetTime
        /\ (callers' = callers /\ id \in DOMAIN accessAttempts')
              => accessAttempts'[id] = accessAttempts[id]

\* C21: cleanupRateLimitData is a pure space optimization: with cleanup calls
\* at arbitrary points between the checkRateLimit calls, every call gets the
\* {allowed, remaining, resetTime} it gets when cleanup is never called, and
\* cleanup removes only entries whose resetTime has passed
C21_CleanupIsPure == []C21_SameAnswers /\ [][C21_Step]_vars

\* a key was limited, its entry was cleaned up after its window and the key
\* was limited again, while the entry of a live window stayed in the map
C21_Witness ==
    \E j, k \in 1 .. Cardinality(Called) :
        /\ j < k
        /\ callers[NthCaller(j)].identifier = callers[NthCaller(k)].identifier
        /\ callers[NthCaller(k)].fresh
        /\ \E i \in 1 .. Cardinality(Called) :
              /\ j < i /\ i < k
              /\ callers[NthCaller(i)].identifier # callers[NthCaller(k)].identifier
              /\ callers[NthCaller(i)].identifier \in DOMAIN accessAttempts
              /\ ~callers[NthCaller(i)].fresh

\* the map after those of the first k calls that passed the identifier id
RECURSIVE MapOfKey(_, _)
MapOfKey(k, id) ==
    IF k = 0
    THEN NoAttempts
    ELSE LET c == callers[NthCaller(k)]
         IN  IF c.identifier # id
             THEN MapOfKey(k - 1, id)
             ELSE Bind(MapOfKey(k - 1, id),
                       LAMBDA m : checkRateLimit(m, id, c.maxAttempts,
                                                 RateWindowMinutes, c.at).map)

\* the answer to the k-th call when no call had passed another identifier
AnswerOfOwnKey(k) ==
    LET c == callers[NthCaller(k)]
    IN  Bind(MapOfKey(k - 1, c.identifier),
             LAMBDA m :
                 LET r == checkRateLimit(m, c.identifier, c.maxAttempts,
                                         RateWindowMinutes, c.at)
                 IN  [allowed |-> r.allowed, remaining |-> r.remaining,
                      resetTime |-> r.resetTime])

C22_OwnBudget ==
    \A k \in 1 .. Cardinality(Called) :
        callers[NthCaller(k)].result = AnswerOfOwnKey(k)

C22_Step ==
    \A p \in Procs :
        (callers # NoCallers /\ Limits(p))
        => \A id \in DOMAIN accessAttempts \ {callers[p].identifier} :
               /\ id \in DOMAIN accessAttempts'
               /\ accessAttempts'[id] = accessAttempts[id]

\* C22: rate-limit budgets are independent per identifier: a checkRateLimit
\* call for one identifier leaves the count and resetTime of every other
\* identifier (another purpose for the same IP, the same purpose for another
\* IP) unchanged, so exhausting one budget never denies a request on another
C22_IndependentBudgets == []C22_OwnBudget /\ [][C22_Step]_vars

\* a call is refused on an exhausted key and, inside that window, calls with
\* the other purpose and with the other address are allowed
C22_Witness ==
    \E j, k, l \in 1 .. Cardinality(Called) :
        /\ j < k /\ k < l
        /\ ~callers[NthCaller(j)].result.allowed
        /\ callers[NthCaller(j)].identifier = <<"file_access", "ip1">>
        /\ callers[NthCaller(k)].identifier = <<"url_generation", "ip1">>
        /\ callers[NthCaller(l)].identifier = <<"file_access", "ip2">>
        /\ callers[NthCaller(k)].result.allowed
        /\ callers[NthCaller(l)].result.allowed
        /\ callers[NthCaller(l)].at <= callers[NthCaller(j)].result.resetTime

\* --------------------------------------------- claims on the anomaly scan
IsDetect == last.kind = "detectSuspiciousActivity"

\* the rows of the scanned file inside the window of the last scan
WindowRows ==
    {i \in DOMAIN accessLogs :
        /\ accessLogs[i].file_id = last.fileId
        /\ accessLogs[i].created_at >= last.at - last.timeWindowHours * 60 * 60 * 1000}
WindowFailures == {i \in WindowRows : ~accessLogs[i].success}
WindowAddresses == {accessLogs[i].ip_address : i \in WindowRows} \ {""}
HighVolume == Cardinality(WindowRows) > 100
ManyAddresses == Cardinality(WindowAddresses) > 20
ManyFailures == Cardinality(WindowFailures) > 20
HighFailureRate ==
    /\ 2 * Cardinality(WindowFailures) > Cardinality(WindowRows)
    /\ Cardinality(WindowRows) > 10
Triggers ==
    {t \in {"volume", "addresses", "failures", "rate"} :
        \/ t = "volume" /\ HighVolume
        \/ t = "addresses" /\ ManyAddresses
        \/ t = "failures" /\ ManyFailures
        \/ t = "rate" /\ HighFailureRate}
ReasonNames ==
    {last.result.reasons[i][1] : i \in DOMAIN last.result.reasons}

\* C23: detectSuspiciousActivity reports isSuspicious = true exactly when at
\* least one of the four triggers holds over the rows in the window (count >
\* 100; unique addresses > 20; failures > 20; failures / count > 0.5 and count
\* > 10), with one reason per trigger that holds; 21 or more failures among 21
\* or more rows are suspicious and 1 failure out of 1 row is not
C23_FourTriggers ==
    IsDetect =>
        /\ last.result.isSuspicious = (Triggers # {})
        /\ Len(last.result.reasons) = Cardinality(Triggers)
        /\ ("High access volume" \in ReasonNames) = HighVolume
        /\ ("Many unique IPs" \in ReasonNames) = ManyAddresses
        /\ ("Many failed attempts" \in ReasonNames) = ManyFailures
        /\ ("High failure rate" \in ReasonNames) = HighFailureRate
        /\ Cardinality(WindowFailures) >= 21 => last.result.isSuspicious
        /\ Cardinality(WindowRows) = 1 => ~last.result.isSuspicious

\* 21 failures among 21 rows: two triggers and two reasons
C23_Witness ==
    /\ IsDetect
    /\ Cardinality(WindowRows) = 21
    /\ Cardinality(WindowFailures) = 21
    /\ last.result.isSuspicious
    /\ Len(last.result.reasons) = 2

\* C24: the unique-IP count of detectSuspiciousActivity, and its fan-out
\* trigger, count only the distinct addresses that are non-empty and not the
\* placeholder "unknown"; rows logged with ip_address = "unknown" add nothing
C24_UnknownNotCounted ==
    IsDetect =>
        /\ last.result.uniqueIPs = Cardinality(WindowAddresses \ {"unknown"})
        /\ ("Many unique IPs" \in ReasonNames)
              = (Cardinality(WindowAddresses \ {"unknown"}) > 20)

\* ------------------------------------------- claims on secure URL issuance
\* the file and the caller of the issuance of this step, as checkFileAccess
\* sees them
IssueBranch ==
    checkFileAccessBranch(files, sessions, last'.fileId, last'.sessionToken, now)
IssueDenied ==
    IssueBranch \in {"file not found", "file expired", "authentication required",
                     "invalid session", "not owner"}
IssueCheck ==
    checkFileAccess(files, sessions, accessLogs, logStoreOk, last'.fileId,
                    last'.sessionToken, last'.options.ipAddress,
                    last'.options.userAgent, now)

C25_Step ==
    (Operation /\ IsIssue' /\ IssueDenied) =>
        /\ last'.result = [success |-> FALSE, url |-> Undefined,
                           error |-> IssueCheck.reason]
        /\ last'.result.error \in
              {"File not found", "File has expired",
               "Authentication required for private file",
               "Invalid or expired session",
               "Access denied - you are not the owner of this file"}
        /\ tok' = tok
        /\ accessLogs' = IssueCheck.logs
        /\ \A i \in DOMAIN accessLogs' \ DOMAIN accessLogs :
              accessLogs'[i].action = "access_check"

\* C25: generateSecureDownloadUrl mints no token and returns no URL whenever
\* checkFileAccess denies (file missing, file expired, no or invalid session
\* on a private file, caller not the owner): it returns success = false with
\* the denial reason and writes no generate_<action>_url log entry
C25_DeniedIssuesNothing == [][C25_Step]_vars

\* the owner of another file asked for a URL of a private file: refused, and
\* the only row written is the one of the access check
C25_Witness ==
    /\ IsIssue
    /\ last.result.error = "Access denied - you are not the owner of this file"
    /\ logStoreOk
    /\ Len(accessLogs) = 1
    /\ accessLogs[1].action = "access_check"
    /\ tok = Undefined

\* C26: URL issuance for a public, unexpired file by a caller whose session
\* token is absent or does not resolve succeeds: a token is minted with the
\* subject omitted and the URL is returned
C26_AnonymousPublicIssue ==
    (/\ IsIssue
     /\ getFileById(files, last.fileId) # Undefined
     /\ getFileById(files, last.fileId)[1].is_public
     /\ ~fileExpired(getFileById(files, last.fileId)[1], last.at)
     /\ verifySession(sessions, last.sessionToken) = Undefined)
    => /\ last.result.success
       /\ last.result.url # Undefined
       /\ last.result.url[1].token.payload.userId = Undefined

IsLogsGet == last.kind = "GET access-logs"
IsDelete == last.kind = "DELETE file"
\* the file id belongs to a file whose owner is not u
OwnedByOther(fileId, u) ==
    /\ getFileById(files, fileId) # Undefined
    /\ getFileById(files, fileId)[1].user_id # u
OwnedBy(fileId, u) ==
    /\ getFileById(files, fileId) # Undefined
    /\ getFileById(files, fileId)[1].user_id = u

\* C28: the access-log query never returns rows of a file the requester does
\* not own: a request that names another user's file is denied, and a request
\* without fileId returns only rows of files the requester owns
C28_OwnLogsOnly ==
    IsLogsGet =>
        LET user == verifySession(sessions, last.sessionToken)
        IN  /\ last.resp.status = 200 => user # Undefined
            /\ \A i \in DOMAIN last.resp.logs :
                  OwnedBy(last.resp.logs[i].file_id, user[1].id)
            /\ (/\ user # Undefined
                /\ last.query.fileId # ""
                /\ OwnedByOther(last.query.fileId, user[1].id))
                  => (last.resp.status \in {403, 404} /\ last.resp.logs = <<>>)

\* a query without fileId that returned rows while the log held rows of a
\* file of another user
C28_Witness ==
    /\ IsLogsGet
    /\ last.resp.status = 200
    /\ last.query.fileId = ""
    /\ Len(last.resp.logs) >= 2
    /\ \E i \in DOMAIN accessLogs :
          OwnedByOther(accessLogs[i].file_id,
                       verifySession(sessions, last.sessionToken)[1].id)

\* C29: no raw address crosses the access-log API: for every stored
\* ip_address other than "unknown", of whatever format and length, the value
\* returned differs from the value stored, and the IPv4 address a.b.c.d is
\* returned as a.b.*.***
C29_NoRawAddress ==
    (IsLogsGet /\ last.resp.status = 200) =>
        \A i \in DOMAIN last.rows :
            LET stored == last.rows[i].ip_address
                returned == last.resp.logs[i].ip_address
            IN  stored \notin {"", "unknown"} =>
                    /\ returned # Some(address(stored))
                    /\ stored = "ip1" =>
                          returned = Some(<<"1", "0", ".", "0", ".", "*", ".", "*", "*", "*">>)

\* the answer to the request of the last step had it named an id that no
\* file has
AnswerForMissing ==
    CASE IsPost ->
           LET r == postGenerateUrl(files, sessions, NoAttempts, <<>>, logStoreOk,
                                    [last.body EXCEPT !.fileId = "f3"],
                                    last.sessionToken, "ip1", "ua1", last.at,
                                    last.at).resp
           IN  <<r.status, r.error>>
      [] IsLogsGet ->
           LET r == getAccessLogs(files, sessions, <<>>, logStoreOk,
                                  [last.query EXCEPT !.fileId = "f3"],
                                  last.sessionToken, last.at).resp
           IN  <<r.status, r.error>>
      [] IsDelete ->
           LET r == deleteDELETE(files, sessions, NoAttempts, <<>>, logStoreOk,
                                 [fileId |-> "f3"], last.sessionToken, "ip1",
                                 "ua1", TRUE, last.at).resp
           IN  <<r.status, r.error>>
TargetOfLast ==
    CASE IsPost -> last.body.fileId
      [] IsLogsGet -> last.query.fileId
      [] IsDelete -> last.body.fileId

\* C30: an authenticated caller who is not the owner cannot tell 'no such
\* file' from 'the file of someone else': URL issuance, the access-log query
\* and delete answer a request for another user's private file with the same
\* 404-class status and error as a request for an id that no file has
C30_Indistinguishable ==
    (/\ IsPost \/ IsLogsGet \/ IsDelete
     /\ verifySession(sessions, last.sessionToken) # Undefined
     /\ TargetOfLast # ""
     /\ OwnedByOther(TargetOfLast, verifySession(sessions, last.sessionToken)[1].id)
     /\ ~getFileById(files, TargetOfLast)[1].is_public)
    => /\ last.resp.status = 404
       /\ <<last.resp.status, last.resp.error>> = AnswerForMissing

\* ------------------------------------------------ the file specification
\* Legacy retrievals and deleteFile calls run as async functions on one event
\* loop and interleave at their awaits: the database call, the read or the
\* unlink of the stored content, and the database write each take effect at a
\* step of their own.  The files of the model have no thumbnail.
idleJob ==
    [pc |-> "idle", op |-> "none", fileId |-> "", expires_at |-> Undefined,
     download_count |-> 0, unlinked |-> FALSE, result |-> "none"]

\* the stored content of the file is on the disk
onDisk(fs, fileId) == fs[fileId] # Undefined /\ fs[fileId][1].on_disk

\* fs.promises.unlink(upload_path) takes effect
unlink(fs, fileId) == [fs EXCEPT ![fileId] = Some([@[1] EXCEPT !.on_disk = FALSE])]

InitJobs ==
    /\ now = 0
    /\ nticks = 0
    /\ nreq = 0
    /\ tok = Undefined
    /\ InitFiles
    /\ sessions = InitSessions
    /\ accessAttempts = NoAttempts
    /\ accessLogs = <<>>
    /\ logStoreOk = FALSE
    /\ callers = [p \in Procs |-> idleJob]
    /\ last = NoResult

\* what a job step leaves alone
JobFrame ==
    UNCHANGED <<now, nticks, nreq, tok, sessions, accessAttempts, accessLogs,
                logStoreOk, last>>

\* job p ends with result
finished(p, result) ==
    [callers EXCEPT ![p] = [@ EXCEPT !.pc = "done", !.result = result]]

\* what deleteFile returns to its caller when it returns false: the delete
\* endpoint gets false, downloadFile goes on to return null
deleteFailed(p) == finished(p, IF callers[p].op = "delete" THEN "false" ELSE "null")

\* GET /api/files/{token}?info=true: getFileInfo and the answer
StartInfo(p, accessToken) ==
    /\ callers[p].pc = "idle"
    /\ p > 1 => callers[p - 1].pc # "idle"
    /\ LET fileInfo == getFileInfo(files, accessToken)
       IN  callers' = [callers EXCEPT ![p] =
                          [@ EXCEPT !.pc = "done", !.op = "info",
                                    !.fileId = IF fileInfo = Undefined THEN ""
                                               ELSE fileInfo[1].id,
                                    !.result =
                                        IF fileInfo = Undefined THEN "null"
                                        ELSE IF fileExpired(fileInfo[1].rec, now)
                                        THEN "expired"
                                        ELSE "metadata"]]
    /\ UNCHANGED files
    /\ JobFrame

\* GET /api/files/{token}: downloadFile(token) up to the answer of
\* database.getFileByAccessToken
StartDownload(p, accessToken) ==
    /\ callers[p].pc = "idle"
    /\ p > 1 => callers[p - 1].pc # "idle"
    /\ LET found == getFileByAccessToken(files, accessToken)
       IN  callers' = [callers EXCEPT ![p] =
                          IF found = Undefined
                          THEN [@ EXCEPT !.pc = "done", !.op = "download",
                                         !.result = "null"]
                          ELSE [@ EXCEPT !.pc = "found", !.op = "download",
                                         !.fileId = found[1].id,
                                         !.expires_at = found[1].rec.expires_at,
                                         !.download_count =
                                             found[1].rec.download_count]]
    /\ UNCHANGED files
    /\ JobFrame

\* downloadFile goes on: the expiry test, fs.existsSync, and the start of
\* deleteFile or of the read
CheckDownload(p) ==
    /\ callers[p].pc = "found"
    /\ callers' =
          IF /\ callers[p].expires_at # Undefined
             /\ callers[p].expires_at[1] < now
          THEN [callers EXCEPT ![p] = [@ EXCEPT !.pc = "deleting"]]
          ELSE IF ~onDisk(files, callers[p].fileId)
          THEN finished(p, "null")
          ELSE [callers EXCEPT ![p] = [@ EXCEPT !.pc = "reading"]]
    /\ UNCHANGED files
    /\ JobFrame

\* fs.promises.readFile takes effect; it throws when the content is gone,
\* and the handler answers 500
ReadDownload(p) ==
    /\ callers[p].pc = "reading"
    /\ callers' =
          IF onDisk(files, callers[p].fileId)
          THEN [callers EXCEPT ![p] = [@ EXCEPT !.pc = "counting"]]
          ELSE finished(p, "error")
    /\ UNCHANGED files
    /\ JobFrame

\* database.incrementDownloadCount takes effect and the content is returned
CountDownload(p) ==
    /\ callers[p].pc = "counting"
    /\ files' = incrementDownloadCount(files, callers[p].fileId)
    /\ callers' = finished(p, "content")
    /\ JobFrame

\* a call of deleteFile(fileId) by a delete endpoint
StartDelete(p, fileId) ==
    /\ callers[p].pc = "idle"
    /\ p > 1 => callers[p - 1].pc # "idle"
    /\ callers' = [callers EXCEPT ![p] = [@ EXCEPT !.pc = "deleting",
                                                   !.op = "delete",
                                                   !.fileId = fileId]]
    /\ UNCHANGED files
    /\ JobFrame

\* deleteFile: the answer of database.getFileById
FindDelete(p) ==
    /\ callers[p].pc = "deleting"
    /\ callers' =
          IF getFileById(files, callers[p].fileId) = Undefined
          THEN deleteFailed(p)
          ELSE [callers EXCEPT ![p] = [@ EXCEPT !.pc = "probing"]]
    /\ UNCHANGED files
    /\ JobFrame

\* deleteFile goes on: fs.existsSync and the start of the unlink, or of
\* database.deleteFile when there is nothing to unlink
ProbeDelete(p) ==
    /\ callers[p].pc = "probing"
    /\ callers' =
          IF onDisk(files, callers[p].fileId)
          THEN [callers EXCEPT ![p] = [@ EXCEPT !.pc = "unlinking"]]
          ELSE [callers EXCEPT ![p] = [@ EXCEPT !.pc = "removing"]]
    /\ UNCHANGED files
    /\ JobFrame

\* fs.promises.unlink takes effect; it throws when the content is gone, and
\* the catch block of deleteFile returns false
UnlinkDelete(p) ==
    /\ callers[p].pc = "unlinking"
    /\ IF onDisk(files, callers[p].fileId)
       THEN /\ files' = unlink(files, callers[p].fileId)
            /\ callers' = [callers EXCEPT ![p] = [@ EXCEPT !.pc = "removing",
                                                           !.unlinked = TRUE]]
       ELSE /\ files' = files
            /\ callers' = deleteFailed(p)
    /\ JobFrame

\* database.deleteFile takes effect and deleteFile returns true
RemoveDelete(p) ==
    /\ callers[p].pc = "removing"
    /\ files' = deleteFile(files, callers[p].fileId)
    /\ callers' = finished(p, IF callers[p].op = "delete" THEN "true" ELSE "null")
    /\ JobFrame

NextJobs ==
    \/ Tick(900000)
    \/ \E p \in Procs, t \in {"a1", "a3"} : StartInfo(p, t)
    \/ \E p \in Procs, t \in {"a1", "a3"} : StartDownload(p, t)
    \/ \E p \in Procs : CheckDownload(p)
    \/ \E p \in Procs : ReadDownload(p)
    \/ \E p \in Procs : CountDownload(p)
    \/ \E p \in Procs : StartDelete(p, "f1")
    \/ \E p \in Procs : FindDelete(p)
    \/ \E p \in Procs : ProbeDelete(p)
    \/ \E p \in Procs : UnlinkDelete(p)
    \/ \E p \in Procs : RemoveDelete(p)

SpecJobs == InitJobs /\ [][NextJobs]_vars

\* ------------------------------------------------ claims on the file store
\* the jobs that have returned the content of file f
Retrieved(f) ==
    {p \in Procs : /\ callers[p].pc = "done"
                   /\ callers[p].result = "content"
                   /\ callers[p].fileId = f}
downloadCount(fs, f) == fs[f][1].download_count

C31_Counted ==
    \A f \in FileIds :
        files[f] # Undefined => downloadCount(files, f) = Cardinality(Retrieved(f))

C31_Step ==
    \A f \in FileIds :
        (files[f] # Undefined /\ files'[f] # Undefined) =>
            /\ downloadCount(files', f) >= downloadCount(files, f)
            /\ downloadCount(files', f) # downloadCount(files, f) =>
                  /\ downloadCount(files', f) = downloadCount(files, f) + 1
                  /\ \E p \in Procs :
                        /\ callers[p].pc = "counting"
                        /\ callers'[p].result = "content"
                        /\ callers[p].fileId = f

\* C31: a file's download_count never decreases; it grows by exactly one for
\* each successful retrieval of the content, also when retrievals run
\* concurrently, and info requests and failed or denied attempts leave it
\* unchanged
C31_DownloadCount == []C31_Counted /\ [][C31_Step]_vars

\* two retrievals that both found the file with count 0 have both returned
\* its content, next to an info request and to a retrieval that failed
C31_Witness ==
    /\ \E p, q \in Retrieved("f1") :
          /\ p # q
          /\ callers[p].download_count = 0
          /\ callers[q].download_count = 0
    /\ files["f1"] # Undefined
    /\ downloadCount(files, "f1") = 2
    /\ \E r \in Procs : callers[r].result = "metadata"
    /\ \E r \in Procs : callers[r].op = "download" /\ callers[r].result = "null"

\* the deleteFile calls of the delete endpoints that returned true for file f
Deleted(f) ==
    {p \in Procs : /\ callers[p].op = "delete"
                   /\ callers[p].pc = "done"
                   /\ callers[p].result = "true"
                   /\ callers[p].fileId = f}

\* C37: a file deletion is atomic with respect to concurrent requests: of the
\* deleteFile calls for one id that interleave, at most one returns true, and
\* the content is unlinked by at most one of them
C37_AtMostOneDeletes ==
    \A f \in FileIds :
        /\ Cardinality(Deleted(f)) <= 1
        /\ Cardinality({p \in Procs : callers[p].fileId = f /\ callers[p].unlinked}) <= 1

\* ------------------------------------------------ claims on the deletion
IsBatchDelete == last.kind = "POST delete files"
\* the user the session token of the last request belongs to, or null
DeleteRequester == requireAuth(sessions, last.sessionToken).user
\* the last request is a delete request that names f
Names(f) ==
    \/ IsDelete /\ last.body.fileId = f
    \/ IsBatchDelete /\ \E i \in DOMAIN last.body.fileIds : last.body.fileIds[i] = f
\* the delete request answered by the last step refused to delete f
Refused(f) ==
    IF IsDelete THEN last.resp.status \in {401, 403, 429}
    ELSE \/ last.resp.status \in {401, 429}
         \/ /\ last.resp.status = 200
            /\ \A i \in DOMAIN last.resp.results :
                  last.resp.results[i].fileId = f =>
                      /\ ~last.resp.results[i].success
                      /\ last.resp.results[i].error = "Access denied"

C32_Step ==
    \A f \in FileIds :
        LET file == getFileById(files, f)
        IN  file # Undefined =>
              /\ files'[f] # files[f] =>
                    /\ (IsDelete \/ IsBatchDelete)' /\ nreq' = nreq + 1
                    /\ Names(f)'
                    /\ DeleteRequester' # Undefined
                    /\ DeleteRequester'[1].id = file[1].user_id
              /\ ( /\ (IsDelete \/ IsBatchDelete)' /\ nreq' = nreq + 1
                   /\ Names(f)'
                   /\ (DeleteRequester' = Undefined \/ DeleteRequester'[1].id # file[1].user_id) )
                  => Refused(f)' /\ files'[f] = files[f]

\* C32: the delete endpoints (single DELETE and batch POST) remove a file's
\* record and content only when the authenticated requester is the owner; a
\* delete request by anyone else is denied and leaves the record and the
\* content unchanged, also when the file is public
C32_OwnerOnlyDelete == [][C32_Step]_vars

\* a batch request of u2 that named the public
\* file f1 of u1 and u2's own f2 was answered: f1 refused and still there with
\* its content, f2 deleted
C32_Witness ==
    /\ IsBatchDelete
    /\ last.sessionToken = "s2"
    /\ last.body.fileIds = <<"f1", "f2">>
    /\ last.resp.status = 200
    /\ files["f1"] # Undefined
    /\ files["f1"][1].is_public
    /\ files["f1"][1].on_disk
    /\ Refused("f1")
    /\ files["f2"] = Undefined

\* ------------------------------------------------ claims on the verification
\* the checks of the presented token that fail in the last call
SignatureFails == last.token.sig # HS256(last.token.payload, SIGNED_URL_SECRET)
ExpiryFails == nowSeconds(last.at) >= last.token.payload.exp
FileIdFails == last.token.payload.fileId # last.fileId
ActionFails == last.token.payload.action # last.action
IpFails ==
    /\ last.token.payload.ip # Undefined
    /\ last.ipAddress # ""
    /\ last.token.payload.ip # sha256(last.ipAddress)
UaFails ==
    /\ last.token.payload.ua # Undefined
    /\ last.userAgent # ""
    /\ last.token.payload.ua # sha256(last.userAgent)
\* the checks in the order of the claim, each with its reason
CheckOrder ==
    <<[fails |-> SignatureFails, reason |-> "Invalid signed URL"],
      [fails |-> ExpiryFails, reason |-> "Signed URL has expired"],
      [fails |-> FileIdFails, reason |-> "File ID mismatch"],
      [fails |-> ActionFails, reason |-> "Action mismatch"],
      [fails |-> IpFails, reason |-> "IP address mismatch"],
      [fails |-> UaFails, reason |-> "User agent mismatch"]>>
Failing == {i \in DOMAIN CheckOrder : CheckOrder[i].fails}
FirstFailing == CHOOSE i \in Failing : \A j \in Failing : i <= j

\* C33: verifySignedUrl reports the first failing check in the fixed order
\* signature, expiry, fileId, action, IP, User-Agent, each with a reason of
\* its own, and accepts the token when no check fails
C33_FirstFailingCheck ==
    IsVerify =>
        /\ \A i, j \in DOMAIN CheckOrder :
              i # j => CheckOrder[i].reason # CheckOrder[j].reason
        /\ IF Failing = {}
           THEN last.result.valid /\ last.result.error = ""
           ELSE /\ ~last.result.valid
                /\ last.result.error = CheckOrder[FirstFailing].reason

\* a token that verifies was presented for another file and another action,
\* and the answer names the file id
C33_Witness ==
    /\ IsVerify
    /\ ~SignatureFails /\ ~ExpiryFails
    /\ FileIdFails /\ ActionFails
    /\ last.result.error = "File ID mismatch"

\* ------------------------------------------------ claims on denied calls
\* the calls of checkRateLimit that were denied
DeniedCalls == {p \in Procs : callers[p].pc = "limited" /\ ~callers[p].result.allowed}

C35_Bounded ==
    \A p \in Procs, id \in DOMAIN accessAttempts :
        (callers[p].pc # "idle" /\ callers[p].maxAttempts >= 1) =>
            accessAttempts[id].count <= callers[p].maxAttempts

C35_Step ==
    \A p \in Procs :
        (callers[p].pc = "entered" /\ callers'[p].pc = "limited"
            /\ ~callers'[p].result.allowed) =>
            /\ accessAttempts' = accessAttempts
            /\ callers[p].identifier \in DOMAIN accessAttempts
            /\ callers'[p].result.resetTime =
                  accessAttempts[callers[p].identifier].resetTime
            /\ callers'[p].result.remaining = 0

\* C35: a denied checkRateLimit call changes nothing: the stored count and
\* resetTime stay as they are and the call returns the stored resetTime; so
\* for maxAttempts >= 1 the stored count never exceeds maxAttempts and
\* repeated denied calls never postpone the end of the window
C35_DeniedChangesNothing == []C35_Bounded /\ [][C35_Step]_vars

\* two calls on one key were denied at different instants of one window, and
\* the window still ends when it did and holds maxAttempts
C35_Witness ==
    \E p, q \in DeniedCalls :
        /\ callers[p].identifier = callers[q].identifier
        /\ callers[p].at < callers[q].at
        /\ callers[p].identifier \in DOMAIN accessAttempts
        /\ accessAttempts[callers[p].identifier].resetTime = callers[p].result.resetTime
        /\ callers[q].result.resetTime = callers[p].result.resetTime
        /\ accessAttempts[callers[p].identifier].count = callers[p].maxAttempts

\* ------------------------------------------------ claims on the reported expiry
\* the reported instant (ms) and the exp claim (s) agree up to one second
SameSecond(expiresAt, token) ==
    /\ nowSeconds(expiresAt[1]) - token.payload.exp <= 1
    /\ token.payload.exp - nowSeconds(expiresAt[1]) <= 1

C36_Single ==
    (IsPost /\ last.resp.status = 200)
        => SameSecond(last.resp.expiresAt, last.resp.url[1].token)

C36_Batch ==
    (IsPut /\ last.resp.status = 200)
        => \A i \in DOMAIN last.resp.results :
              last.resp.results[i].success
                 => SameSecond(last.resp.results[i].expiresAt,
                               last.resp.results[i].url[1].token)

\* C36: the expiry instant that URL issuance reports equals the expiry the
\* minted token carries, up to one second, for every requested lifetime, in
\* single and in batch issuance; no reported expiry is later than the moment
\* the token stops verifying
C36_ReportedExpiry == C36_Single /\ C36_Batch

\* ------------------------------------------------ claims on the secure log
\* the step is a request handled by the secure endpoint
SecureGetStep == IsSecureGet' /\ nreq' = nreq + 1
\* the row the step appended
NewRow == accessLogs'[Len(accessLogs')]

C34_Step ==
    (SecureGetStep /\ logStoreOk) =>
        /\ Len(accessLogs') = Len(accessLogs) + 1
        /\ SubSeq(accessLogs', 1, Len(accessLogs)) = accessLogs
        /\ NewRow.file_id = last'.fileId
        /\ NewRow.success = (last'.resp.status = 200)
        /\ ~NewRow.success => NewRow.error_message # ""

BindBodies ==
    [fileId : {"f1"}, expiresIn : {Undefined}, action : {Undefined},
     restrictToIP : BOOLEAN, restrictToUserAgent : BOOLEAN]

NextBind ==
    \/ Tick(500000)
    \/ \E b \in BindBodies, ip \in {"ip1", "unknown"} :
          PostGenerateUrl(b, "s1", ip, "ua1", 0)
    \/ \E ip \in IPs \cup {"unknown"}, ua \in UserAgents \cup {""},
          a \in {"download", "info"} :
          SecureGet("f1", tok, a, ip, ua, "")

SpecBind == Init /\ [][NextBind]_vars

\* ------------------------------------------------ claims on the bindings
\* the token the last secure request presented
Presented == last.token[1]
\* the secure endpoint took the token: the request got past the checks of
\* the token, to the lookup of the file
TokenAccepted ==
    /\ IsSecureGet
    /\ last.token # Undefined
    /\ last.resp.status \notin {400, 429, 500}
    /\ ~(last.resp.status = 403 /\ last.resp.error # "Access denied")

\* C38: a token minted with a User-Agent binding (an IP binding) is accepted
\* by the secure endpoint only for requests whose User-Agent (client IP)
\* equals the bound value; a request without User-Agent header, or without a
\* client IP that can be derived, is not accepted with a bound token
C38_BoundTokenNeedsMatch ==
    TokenAccepted =>
        /\ Presented.payload.ua # Undefined =>
              /\ last.userAgent # ""
              /\ sha256(last.userAgent) = Presented.payload.ua
        /\ Presented.payload.ip # Undefined =>
              /\ last.ipAddress # "unknown"
              /\ sha256(last.ipAddress) = Presented.payload.ip

====
